---- MODULE Spec2Model ----
(***************************************************************************)
(* Mapping browser extension: the encryption engine (utils/crypto.js), the *)
(* secret and session stores (utils/storage.js), the capture orchestrator  *)
(* (background.js handleMapping) and the popup operations that share       *)
(* chrome.storage.local with it (popup/popup.js).                           *)
(*                                                                         *)
(* Encoding.  Strings that the code computes on (captured text, titles,    *)
(* summaries) are sequences of one-character strings.  Ids (sessions,      *)
(* pages, keys) are positive integers; Null (JavaScript null) is 0 and a   *)
(* stored value that is absent (JavaScript undefined) is Undef = -1.       *)
(***************************************************************************)
EXTENDS Integers, Sequences, FiniteSets, TLC

\* ------------------------------------------------------------------ bounds
\* capture events handled in one behaviour
MaxCaptures == 2
\* master keys generated in one behaviour
MaxKeys == 2
\* popup / session-store operations started in one behaviour of SpecSeq
MaxUiOps == 2
\* popup / session-store operations started while captures run, in Spec
MaxRaceOps == 1
\* captures and operations started, together, in one behaviour of SpecSeq
MaxSeqTasks == 3
\* concurrent callers of getOrCreateMasterKey in one execution context
NCallers == 3
\* addContentToSession calls in one behaviour of SpecStore
MaxAdds == 32
\* secret-store and Encryption Engine calls in one behaviour of SpecVault
MaxVaultOps == 5
\* elements of an array and members of an object handed to encrypt
MaxItems == 2
\* encrypt / decrypt and hash / verify round trips in one behaviour of
\* SpecCodec and of SpecPw
MaxRoundTrips == 1
\* encrypt calls in one behaviour of SpecIv
MaxEncrypts == 3
\* decrypt calls in one behaviour of SpecOpen
MaxDecrypts == 2
\* UTF-16 code units of a password
MaxPwLen == 2
\* SessionManager calls in one behaviour of SpecSess
MaxSessOps == 3

\* ------------------------------------------------------- program constants
\* storage.js:152  if (session.contents.length > 30)
MaxContents == 30
\* storage.js:145 / background.js:107  substring(0, 300)
SummaryLimit == 300
\* background.js:204  slice(0, 5)
TitleWords == 5
\* popup.js:403  sessions.slice(0, 5)
RenderLimit == 5

Null == 0
Undef == -1

Min(a, b) == IF a < b THEN a ELSE b

\* ------------------------------------------------------------------ strings
\* /\s/ restricted to the white-space characters the model's texts use
IsSpace(ch) == ch \in {" ", "\n", "\t"}

\* String.prototype.substring(0, n)
Substring0(s, n) == SubSeq(s, 1, Min(n, Len(s)))

\* Array.prototype.slice(0, n)
Slice0(xs, n) == SubSeq(xs, 1, Min(n, Len(xs)))

\* Array.prototype.slice(-n)
SliceLast(xs, n) == IF Len(xs) <= n THEN xs ELSE SubSeq(xs, Len(xs) - n + 1, Len(xs))

\* first index >= i of s that holds no white space, Len(s)+1 if none
SkipSpace(s, i) ==
    CHOOSE j \in i..(Len(s) + 1) :
        /\ (j = Len(s) + 1 \/ ~IsSpace(s[j]))
        /\ \A k \in i..(j - 1) : IsSpace(s[k])

\* first index >= i of s that holds white space, Len(s)+1 if none
NextSpace(s, i) ==
    CHOOSE j \in i..(Len(s) + 1) :
        /\ (j = Len(s) + 1 \/ IsSpace(s[j]))
        /\ \A k \in i..(j - 1) : ~IsSpace(s[k])

\* String.prototype.split(/\s+/) from position i (1 <= i <= Len(s)+1, i the
\* start of a piece): every maximal white-space run is one separator, so a
\* text that starts (ends) with white space has an empty first (last) piece.
RECURSIVE SplitFrom(_, _)
SplitFrom(s, i) ==
    LET j == NextSpace(s, i)
        piece == SubSeq(s, i, j - 1)
    IN IF j > Len(s) THEN <<piece>>
       ELSE <<piece>> \o SplitFrom(s, SkipSpace(s, j))

SplitWs(s) == SplitFrom(s, 1)

\* Array.prototype.join(' ')
RECURSIVE JoinSp(_)
JoinSp(xs) ==
    IF Len(xs) = 0 THEN <<>>
    ELSE IF Len(xs) = 1 THEN xs[1]
    ELSE xs[1] \o <<" ">> \o JoinSp(Tail(xs))

Ellipsis == <<".", ".", ".">>

\* background.js:204-206  the fallback title of processWithGroq
FallbackTitle(selectedText) ==
    JoinSp(Slice0(SplitWs(selectedText), TitleWords)) \o Ellipsis

NewSection == <<"N", "e", "w", " ", "S", "e", "c", "t", "i", "o", "n">>


\* ------------------------------------------------------------------- state
Caps == {"c1", "c2"}
Ctxs == {"popup", "bg"}
SecretNames == {"groqApiKey", "notionCredentials", "userData"}
SessionNames == {"Research A"}
DefaultName == "Default"

VARIABLES
    \* chrome.storage.local, shared by the popup and the background worker
    setupComplete,      \* 'setupComplete' (FALSE: absent)
    isLocked,           \* 'isLocked' (FALSE: absent or false)
    activeSessionId,    \* 'activeSessionId': Undef, Null or a session id
    sessions,           \* 'sessions': the stored list (absent reads as [])
    totalNotes,         \* 'totalNotes': Undef or a number
    masterKey,          \* '_masterKey': Null or the exported key
    encrypted,          \* 'encrypted_<name>': the stored blob of each secret
    \* CryptoUtils of each execution context
    encryptionKey,      \* _encryptionKey
    keyPromise,         \* _keyPromise: Null or the index of a promise in proms
    proms,              \* the key-creation promises a context has started
    callers,            \* the getOrCreateMasterKey calls in flight
    \* the document-storage service
    pages,              \* the remote pages (a page's id is its index): the name it
                        \* is titled with, the session id of the capture that
                        \* created it, the number of sections written to it
    \* the tasks
    cap,                \* the capture tasks of the background worker
    ui,                 \* the popup / session-store operation in progress
    rendered,           \* session ids the popup's session list shows
    \* counters
    nextId,             \* the next id CryptoUtils.generateId returns
    nextKey,            \* the next key crypto.subtle.generateKey returns
    now,                \* the clock new Date() reads
    capBudget,          \* capture events the behaviour may still start
    uiBudget,           \* popup / session-store operations it may still start
    nAdds               \* addContentToSession calls on each session id

storageVars == <<setupComplete, isLocked, activeSessionId, sessions, totalNotes,
                 masterKey, encrypted>>
keyVars == <<encryptionKey, keyPromise, proms, callers, nextKey>>
taskVars == <<cap, ui, rendered, pages, nextId, now, capBudget, uiBudget, nAdds>>
vars == <<storageVars, keyVars, taskVars>>

\* --------------------------------------------------- Session Store, pure part
\* storage.js:106-113  the session createSession builds
\* a session object without notionPageId, contents and contentCount
BareSession(id, name) ==
    [id |-> id, name |-> name, notionPageId |-> Undef,
     hasContents |-> FALSE, contents |-> <<>>, contentCount |-> Undef]

NewSession(id, name) ==
    [id |-> id, name |-> name, notionPageId |-> Null,
     hasContents |-> TRUE, contents |-> <<>>, contentCount |-> 0]

\* popup.js:449-455  the session createNewSession builds: it has noteIds and
\* summary, and no notionPageId, contents or contentCount
PopupSession(id, name) ==
    [id |-> id, name |-> name, notionPageId |-> Undef,
     hasContents |-> FALSE, contents |-> <<>>, contentCount |-> Undef]

\* Array.prototype.findIndex(s => s.id === id), 1-based, 0 when there is none
FindIndex(list, id) ==
    IF \E i \in 1..Len(list) : list[i].id = id
    THEN CHOOSE i \in 1..Len(list) :
            /\ list[i].id = id
            /\ \A k \in 1..(i - 1) : list[k].id # id
    ELSE 0

\* x || 0 for a stored number
OrZero(x) == IF x = Undef THEN 0 ELSE x

\* x || null for a stored id
OrNull(x) == IF x = Undef THEN Null ELSE x

\* storage.js:143-147  the entry addContentToSession pushes
ContentEntry(title, summary, ts) ==
    [title |-> title, summary |-> Substring0(summary, SummaryLimit), timestamp |-> ts]

\* a list that is never cut
KeepAll(contents) == contents

\* a cut that keeps the oldest entries
TrimNewest(contents) == Slice0(contents, MaxContents)

\* storage.js:151-154  keep only the last 30 content items
TrimContents(contents) ==
    IF Len(contents) > MaxContents THEN SliceLast(contents, MaxContents) ELSE contents

\* an update that pushes the entry and leaves contentCount as it was
AddContentUncounted(session, title, summary, ts) ==
    [session EXCEPT
        !.hasContents = TRUE,
        !.contents = TrimContents(Append(session.contents, ContentEntry(title, summary, ts)))]

\* storage.js:141-154  the session after addContentToSession's in-memory update
AddContent(session, title, summary, ts) ==
    [session EXCEPT
        !.hasContents = TRUE,
        !.contents = TrimContents(Append(session.contents, ContentEntry(title, summary, ts))),
        !.contentCount = OrZero(session.contentCount) + 1]

\* storage.js:174  sessions[index] = { ...sessions[index], notionPageId }
UpdateSessionPage(session, pageId) == [session EXCEPT !.notionPageId = pageId]

\* a filter that drops the first session, whatever its id
DropFirst(list, id) == IF Len(list) = 0 THEN list ELSE SubSeq(list, 2, Len(list))

\* storage.js:212  sessions.filter(s => s.id !== sessionId)
FilterOut(list, id) == SelectSeq(list, LAMBDA s : s.id # id)

\* storage.js:217  filtered[0]?.id || null
FirstIdOrNull(list) == IF Len(list) = 0 THEN Null ELSE list[1].id

\* storage.js:188-207  getSessionContext on the list it read
SessionContextOf(list, id) ==
    LET i == FindIndex(list, id) IN
    IF i # 0
    THEN [sessionName |-> list[i].name,
          notionPageId |-> OrNull(list[i].notionPageId),
          contents |-> list[i].contents,
          contentCount |-> OrZero(list[i].contentCount)]
    ELSE [sessionName |-> DefaultName, notionPageId |-> Null,
          contents |-> <<>>, contentCount |-> 0]

\* the ids of a list
IdsOf(list) == {list[i].id : i \in 1..Len(list)}


\* ------------------------------------------------------- Encryption Engine
\* the stored form of a secret: the key it was encrypted under and its value;
\* NoBlob: nothing stored under that name
NoBlob == [key |-> Null, val |-> Null]

\* crypto.js:157-177  encrypt(data) under key
Encrypt(key, data) == [key |-> key, val |-> data]

\* crypto.js:186-190  AES-GCM decrypt authenticates only under the blob's key
DecryptOk(key, blob) == blob.key = key

\* the key state getOrCreateMasterKey reads and writes
KeyState == [encryptionKey |-> encryptionKey, masterKey |-> masterKey, nextKey |-> nextKey]

\* crypto.js:98-147  getOrCreateMasterKey of context x on key state st, run
\* without another call of the same context in flight: the cached key, else
\* the persisted key imported, else a generated key persisted.  The key it
\* resolves to is the resulting encryptionKey[x].
ResolveKey(st, x) ==
    IF st.encryptionKey[x] # Null THEN st
    ELSE IF st.masterKey # Null
    THEN [st EXCEPT !.encryptionKey[x] = st.masterKey]
    ELSE [st EXCEPT !.encryptionKey[x] = st.nextKey,
                    !.masterKey = st.nextKey,
                    !.nextKey = st.nextKey + 1]

\* crypto.js:198-200  clearKey
ClearKey(st, x) == [st EXCEPT !.encryptionKey[x] = Null]

\* the key state becomes st; a behaviour generates at most MaxKeys keys
SetKeyState(st) ==
    /\ st.nextKey <= MaxKeys + 1
    /\ encryptionKey' = st.encryptionKey
    /\ masterKey' = st.masterKey
    /\ nextKey' = st.nextKey

GetOrCreateMasterKey(x) == SetKeyState(ResolveKey(KeyState, x))

\* storage.js:27-37  getEncrypted(name) in context x; the value it returns is
\* GetEncryptedValue(x, name) (Null: nothing stored, or decryption failed)
GetEncryptedKeys(st, x, name) ==
    IF encrypted[name] = NoBlob THEN st ELSE ResolveKey(st, x)

GetEncrypted(x, name) == SetKeyState(GetEncryptedKeys(KeyState, x, name))

GetEncryptedValue(x, name) ==
    IF encrypted[name] = NoBlob THEN Null
    ELSE IF DecryptOk(encryptionKey'[x], encrypted[name]) THEN encrypted[name].val
    ELSE Null

\* crypto.js:180-195  decrypt(blob) with the key getOrCreateMasterKey resolved
\* to: crypto.subtle.decrypt rejects unless the key is the blob's
Decrypt(key, blob) ==
    IF DecryptOk(key, blob) THEN [threw |-> FALSE, value |-> blob.val]
    ELSE [threw |-> TRUE, value |-> Null]

\* storage.js:27-37  what getEncrypted makes of the blob it read: null when
\* nothing is stored, and the catch block turns a rejected decrypt into null
GetEncryptedResult(key, blob) ==
    IF blob = NoBlob THEN [threw |-> FALSE, value |-> Null]
    ELSE LET d == Decrypt(key, blob) IN
         IF d.threw THEN [threw |-> FALSE, value |-> Null] ELSE d

\* --------------------------------------- encrypt and decrypt, step by step
\* A JavaScript value that JSON can carry: null, a boolean, a number, a
\* string, an array (items: its elements, key <<>>) or a plain object (items:
\* its members in property order).
JVal(t, b, n, str, items) == [t |-> t, b |-> b, n |-> n, s |-> str, items |-> items]
JNull == JVal("null", FALSE, 0, <<>>, <<>>)
JBool(b) == JVal("bool", b, 0, <<>>, <<>>)
JNum(n) == JVal("num", FALSE, n, <<>>, <<>>)
JStr(str) == JVal("str", FALSE, 0, str, <<>>)
JItem(key, val) == [key |-> key, val |-> val]
JArr(vals) == JVal("arr", FALSE, 0, <<>>, [i \in 1..Len(vals) |-> JItem(<<>>, vals[i])])
JObj(members) == JVal("obj", FALSE, 0, <<>>, members)

\* JSON text as its sequence of lexical tokens
Tok(k, n, str) == [k |-> k, n |-> n, s |-> str]
Punct(k) == Tok(k, 0, <<>>)

\* a serializer that writes every number as null, as JSON.stringify does for
\* NaN and Infinity
AtomTokenNumbersNull(v) ==
    CASE v.t = "bool" -> Punct(IF v.b THEN "true" ELSE "false")
      [] v.t = "str" -> Tok("str", 0, v.s)
      [] OTHER -> Punct("null")

\* crypto.js:161  JSON.stringify of null, a boolean, a number or a string
AtomToken(v) ==
    CASE v.t = "null" -> Punct("null")
      [] v.t = "bool" -> Punct(IF v.b THEN "true" ELSE "false")
      [] v.t = "num" -> Tok("num", v.n, <<>>)
      [] v.t = "str" -> Tok("str", 0, v.s)

RECURSIVE JsonStringify(_), StringifyItems(_, _, _)
\* crypto.js:161  JSON.stringify(data)
JsonStringify(v) ==
    IF v.t = "arr" THEN <<Punct("[")>> \o StringifyItems(v.items, 1, FALSE) \o <<Punct("]")>>
    ELSE IF v.t = "obj"
    THEN <<Punct("{")>> \o StringifyItems(v.items, 1, TRUE) \o <<Punct("}")>>
    ELSE <<AtomToken(v)>>

\* the elements of an array or the members of an object, comma separated
StringifyItems(items, i, named) ==
    IF i > Len(items) THEN <<>>
    ELSE (IF i > 1 THEN <<Punct(",")>> ELSE <<>>)
         \o (IF named THEN <<Tok("str", 0, items[i].key), Punct(":")>> ELSE <<>>)
         \o JsonStringify(items[i].val)
         \o StringifyItems(items, i + 1, named)

ParseFail == [ok |-> FALSE, val |-> JNull, next |-> 0]
ParseOk(val, next) == [ok |-> TRUE, val |-> val, next |-> next]

RECURSIVE ParseValue(_, _), ParseItems(_, _, _, _)
\* crypto.js:194  JSON.parse: the value that starts at token i and the
\* position after it
ParseValue(toks, i) ==
    IF i > Len(toks) THEN ParseFail
    ELSE LET tk == toks[i] IN
         CASE tk.k = "null" -> ParseOk(JNull, i + 1)
           [] tk.k = "true" -> ParseOk(JBool(TRUE), i + 1)
           [] tk.k = "false" -> ParseOk(JBool(FALSE), i + 1)
           [] tk.k = "num" -> ParseOk(JNum(tk.n), i + 1)
           [] tk.k = "str" -> ParseOk(JStr(tk.s), i + 1)
           [] tk.k = "[" ->
                IF i + 1 <= Len(toks) /\ toks[i + 1].k = "]"
                THEN ParseOk(JVal("arr", FALSE, 0, <<>>, <<>>), i + 2)
                ELSE ParseItems(toks, i + 1, <<>>, FALSE)
           [] tk.k = "{" ->
                IF i + 1 <= Len(toks) /\ toks[i + 1].k = "}"
                THEN ParseOk(JObj(<<>>), i + 2)
                ELSE ParseItems(toks, i + 1, <<>>, TRUE)
           [] OTHER -> ParseFail

\* the elements or members that start at token i, up to the closing bracket
ParseItems(toks, i, acc, named) ==
    LET at == IF named THEN i + 2 ELSE i
        keyOk == named => (i + 1 <= Len(toks) /\ toks[i].k = "str" /\ toks[i + 1].k = ":")
    IN
    IF ~keyOk THEN ParseFail
    ELSE LET r == ParseValue(toks, at) IN
         IF ~r.ok \/ r.next > Len(toks) THEN ParseFail
         ELSE LET item == JItem(IF named THEN toks[i].s ELSE <<>>, r.val)
                  close == IF named THEN "}" ELSE "]"
              IN
              IF toks[r.next].k = "," THEN ParseItems(toks, r.next + 1, Append(acc, item), named)
              ELSE IF toks[r.next].k = close
              THEN ParseOk(JVal(IF named THEN "obj" ELSE "arr", FALSE, 0, <<>>,
                                Append(acc, item)), r.next + 1)
              ELSE ParseFail

\* crypto.js:194  JSON.parse(decryptedString): throws unless the whole text is
\* one value
JsonParse(toks) ==
    LET r == ParseValue(toks, 1) IN
    IF r.ok /\ r.next = Len(toks) + 1 THEN [threw |-> FALSE, value |-> r.val]
    ELSE [threw |-> TRUE, value |-> JNull]

\* crypto.js:13-20  arrayBufferToBase64: btoa of the bytes, as the sequence of
\* the 6-bit digits (64: the padding character)
Base64Pad == 64
Base64Encode(bytes) ==
    LET n == Len(bytes)
        byte(i) == IF i <= n THEN bytes[i] ELSE 0
    IN [j \in 1..(4 * ((n + 2) \div 3)) |->
          LET g == (j - 1) \div 4
              k == (j - 1) % 4
              b0 == byte(3 * g + 1)
              b1 == byte(3 * g + 2)
              b2 == byte(3 * g + 3)
          IN CASE k = 0 -> b0 \div 4
               [] k = 1 -> (b0 % 4) * 16 + b1 \div 16
               [] k = 2 -> IF 3 * g + 2 > n THEN Base64Pad ELSE (b1 % 16) * 4 + b2 \div 64
               [] k = 3 -> IF 3 * g + 3 > n THEN Base64Pad ELSE b2 % 64]

\* crypto.js:24  atob drops one or two trailing pad characters of a string
\* whose length is a multiple of four: the digits that are left
Base64Body(digits) ==
    LET n == Len(digits) IN
    IF n > 0 /\ n % 4 = 0 /\ digits[n] = Base64Pad
    THEN IF digits[n - 1] = Base64Pad THEN n - 2 ELSE n - 1
    ELSE n

\* crypto.js:24  atob throws on a character outside the alphabet and on a
\* length that leaves one digit over
Base64Valid(digits) ==
    /\ Base64Body(digits) % 4 # 1
    /\ \A j \in 1..Base64Body(digits) : digits[j] \in 0..63

\* crypto.js:23-30  base64ToArrayBuffer: the bytes of atob(base64)
Base64Decode(digits) ==
    LET body == Base64Body(digits)
        digit(j) == IF j > body THEN 0 ELSE digits[j]
    IN [i \in 1..((3 * body) \div 4) |->
          LET g == (i - 1) \div 3
              k == (i - 1) % 3
              c0 == digit(4 * g + 1)
              c1 == digit(4 * g + 2)
              c2 == digit(4 * g + 3)
              c3 == digit(4 * g + 4)
          IN CASE k = 0 -> c0 * 4 + c1 \div 16
               [] k = 1 -> (c1 % 16) * 16 + c2 \div 4
               [] k = 2 -> (c2 % 4) * 64 + c3]

\* crypto.js:167-171  AES-GCM ciphertext with its tag: it opens only under the
\* key and the IV it was made with
Seal(key, iv, plain) == [key |-> key, iv |-> iv, plain |-> plain]

\* an encrypt that uses one IV for every call
EncryptJsonFixedIv(key, iv, v) ==
    LET fixed == [i \in 1..12 |-> 255] IN
    [iv |-> Base64Encode(fixed), data |-> Seal(key, fixed, JsonStringify(v))]

\* crypto.js:157-177  encrypt(data) with the resolved key and the random IV
EncryptJson(key, iv, v) ==
    [iv |-> Base64Encode(iv), data |-> Seal(key, iv, JsonStringify(v))]

\* a decrypt that does not authenticate: the plaintext is returned under any
\* key and any IV
DecryptJsonNoAuth(key, blob) ==
    IF Base64Valid(blob.iv) THEN JsonParse(blob.data.plain)
    ELSE [threw |-> TRUE, value |-> JNull]

\* crypto.js:180-195  decrypt(encryptedData) with the resolved key: atob throws
\* on a malformed IV, crypto.subtle.decrypt on a ciphertext that does not
\* authenticate under the key and the IV
DecryptJson(key, blob) ==
    IF ~Base64Valid(blob.iv) THEN [threw |-> TRUE, value |-> JNull]
    ELSE LET iv == Base64Decode(blob.iv) IN
         IF blob.data.key = key /\ blob.data.iv = iv THEN JsonParse(blob.data.plain)
         ELSE [threw |-> TRUE, value |-> JNull]

\* no encrypted object
NoCipher == [iv |-> <<>>, data |-> Seal(Null, <<>>, <<>>)]

\* crypto.js:164  the IV is 12 random bytes
IvLength == 12
Ivs == {[i \in 1..IvLength |-> 255], [i \in 1..IvLength |-> (i * 37) % 256]}

\* a character outside the base64 alphabet
NotBase64 == 65

\* what reaches decrypt in place of the object encrypt made
DamageKinds == {"intact", "ivOther", "ivCut", "ivChar", "ivShort", "dataForged"}

\* crypto.js:184-185  the object encrypt made, as it reaches decrypt: intact,
\* with the IV of another call, with an IV cut to nine bytes, with a character
\* atob rejects, with a length atob rejects, or with ciphertext bytes that
\* were altered or cut and so authenticate under no key
Damage(kind, blob) ==
    CASE kind = "intact" -> blob
      [] kind = "ivOther" ->
           [blob EXCEPT !.iv = Base64Encode(CHOOSE iv \in Ivs : iv # blob.data.iv)]
      [] kind = "ivCut" -> [blob EXCEPT !.iv = SubSeq(blob.iv, 1, 12)]
      [] kind = "ivChar" -> [blob EXCEPT !.iv = [blob.iv EXCEPT ![1] = NotBase64]]
      [] kind = "ivShort" -> [blob EXCEPT !.iv = SubSeq(blob.iv, 1, 13)]
      [] kind = "dataForged" -> [blob EXCEPT !.data = [blob.data EXCEPT !.key = Null]]

\* crypto.js:164  the n-th value crypto.getRandomValues returns in a
\* behaviour, taken as never returning the same 12 bytes twice
RandomIv(n) == [i \in 1..IvLength |-> (n * 37 + i) % 256]

\* the values handed to encrypt: atoms, arrays and objects of up to MaxItems
\* atoms, and arrays and objects that hold one array or object
JAtoms == {JNull, JBool(TRUE), JBool(FALSE), JNum(0), JNum(7), JStr(<<>>), JStr(<<"a">>)}
JKey(i) == [j \in 1..i |-> "k"]
JFlat ==
    UNION {{JArr(vals) : vals \in [1..n -> JAtoms]} : n \in 0..MaxItems}
    \cup UNION {{JObj([i \in 1..n |-> JItem(JKey(i), vals[i])]) : vals \in [1..n -> JAtoms]}
                : n \in 0..MaxItems}
JSmall == {v \in JFlat : Len(v.items) <= 1}
JsonValues ==
    JAtoms \cup JFlat
    \cup {JArr(<<v>>) : v \in JSmall}
    \cup {JObj(<<JItem(JKey(1), v)>>) : v \in JSmall}

\* ------------------------------------------- hashPassword, verifyPassword
\* A password is a JavaScript string, a sequence of UTF-16 code units: "a",
\* "b", "H" (the high surrogate U+D83D) and "L" (the low surrogate U+DE00).
PwUnits == {"a", "b", "H", "L"}
Passwords16 == UNION {[1..n -> PwUnits] : n \in 1..MaxPwLen}

\* no code unit of str is a surrogate without its partner
WellFormed(str) ==
    \A i \in 1..Len(str) :
        /\ str[i] = "H" => (i < Len(str) /\ str[i + 1] = "L")
        /\ str[i] = "L" => (i > 1 /\ str[i - 1] = "H")

RECURSIVE Utf8From(_, _)
\* crypto.js:34-35, 70-71  TextEncoder.encode: a surrogate pair becomes the
\* four bytes of its code point, a surrogate without partner the three bytes
\* of U+FFFD, "a" and "b" their one byte
Utf8From(str, i) ==
    IF i > Len(str) THEN <<>>
    ELSE IF str[i] = "H" /\ i < Len(str) /\ str[i + 1] = "L"
    THEN <<240, 159, 152, 128>> \o Utf8From(str, i + 2)
    ELSE IF str[i] \in {"H", "L"} THEN <<239, 191, 189>> \o Utf8From(str, i + 1)
    ELSE <<IF str[i] = "a" THEN 97 ELSE 98>> \o Utf8From(str, i + 1)

Utf8Encode(str) == Utf8From(str, 1)

\* crypto.js:8-10  generateSalt: 16 random bytes
SaltLength == 16
Salts == {[i \in 1..SaltLength |-> 0], [i \in 1..SaltLength |-> (i * 53) % 256]}

\* a digest that does not depend on the password
SaltOnlyDigest(pw, salt) == salt

\* crypto.js:47-57, 82-92  PBKDF2-SHA-256 deriveBits, taken as collision
\* free: the digest determines the password bytes and the salt
Pbkdf2(pw, salt) == <<Len(pw)>> \o pw \o salt

\* crypto.js:33-66  hashPassword(password) with the salt it drew
HashPassword(password, salt) ==
    [salt |-> Base64Encode(salt),
     hash |-> Base64Encode(Pbkdf2(Utf8Encode(password), salt))]

\* crypto.js:69-95  verifyPassword(password, storedHash)
VerifyPasswordHash(password, storedHash) ==
    Base64Encode(Pbkdf2(Utf8Encode(password), Base64Decode(storedHash.salt)))
        = storedHash.hash

NoHash == [salt |-> <<>>, hash |-> <<>>]

\* ---------------------------------- getOrCreateMasterKey, await by await
\* a call of getOrCreateMasterKey: where it waits, the promise it waits for
\* (0: none), how it got its key and the key it resolved to
KeyCaller(pc, prom, via, result) == [pc |-> pc, prom |-> prom, via |-> via, result |-> result]

\* the async function of crypto.js:109-142: where it is suspended, what the
\* storage read gave it, the key it generated and passed to exportKey, whether
\* its storage write has happened, and the value it resolved to
NewKeyPromise == [pc |-> "get", stored |-> Null, key |-> Null, wrote |-> FALSE,
                  value |-> Null]

\* a guard that sees no creation in flight
InFlightNever(x) == FALSE

\* crypto.js:105  if (this._keyPromise)
InFlight(x) == keyPromise[x] # Null

\* crypto.js:98-109, 144  the synchronous part of a call in context x: the
\* cached key, else the promise in flight, else a new key-creation promise,
\* which runs up to its first await (the storage read)
KeyCall(x) ==
    /\ Len(callers[x]) < NCallers
    /\ IF encryptionKey[x] # Null
       THEN /\ callers' = [callers EXCEPT ![x] =
                  Append(@, KeyCaller("done", 0, "cached", encryptionKey[x]))]
            /\ UNCHANGED <<keyPromise, proms>>
       ELSE IF InFlight(x)
       THEN /\ callers' = [callers EXCEPT ![x] =
                  Append(@, KeyCaller("await", keyPromise[x], "shared", Null))]
            /\ UNCHANGED <<keyPromise, proms>>
       ELSE /\ proms' = [proms EXCEPT ![x] = Append(@, NewKeyPromise)]
            /\ keyPromise' = [keyPromise EXCEPT ![x] = Len(proms[x]) + 1]
            /\ callers' = [callers EXCEPT ![x] =
                  Append(@, KeyCaller("await", Len(proms[x]) + 1, "own", Null))]
    /\ UNCHANGED <<storageVars, encryptionKey, nextKey, taskVars>>

\* crypto.js:111-115  the storage read of '_masterKey' completes
KeyGet(x, p) ==
    /\ proms[x][p].pc = "get"
    /\ proms' = [proms EXCEPT ![x][p] =
                   [@ EXCEPT !.stored = masterKey,
                             !.pc = IF masterKey # Null THEN "import" ELSE "generate"]]
    /\ UNCHANGED <<storageVars, encryptionKey, keyPromise, callers, nextKey, taskVars>>

\* crypto.js:117-124, 141  importKey completes: the key is cached and returned
KeyImport(x, p) ==
    /\ proms[x][p].pc = "import"
    /\ encryptionKey' = [encryptionKey EXCEPT ![x] = proms[x][p].stored]
    /\ proms' = [proms EXCEPT ![x][p] =
                   [@ EXCEPT !.pc = "resolved", !.value = proms[x][p].stored]]
    /\ UNCHANGED <<storageVars, keyPromise, callers, nextKey, taskVars>>

\* crypto.js:127-134  generateKey completes: the new key is cached, then
\* passed to exportKey
KeyGenerate(x, p) ==
    /\ proms[x][p].pc = "generate"
    /\ encryptionKey' = [encryptionKey EXCEPT ![x] = nextKey]
    /\ nextKey' = nextKey + 1
    /\ proms' = [proms EXCEPT ![x][p] = [@ EXCEPT !.pc = "export", !.key = nextKey]]
    /\ UNCHANGED <<storageVars, keyPromise, callers, taskVars>>

\* crypto.js:134-138  exportKey completes: the storage write is requested
KeyExport(x, p) ==
    /\ proms[x][p].pc = "export"
    /\ proms' = [proms EXCEPT ![x][p] = [@ EXCEPT !.pc = "set"]]
    /\ UNCHANGED <<storageVars, encryptionKey, keyPromise, callers, nextKey, taskVars>>

\* crypto.js:137  chrome.storage.local.set({ _masterKey }) takes effect
KeySet(x, p) ==
    /\ proms[x][p].pc = "set"
    /\ masterKey' = proms[x][p].key
    /\ proms' = [proms EXCEPT ![x][p] = [@ EXCEPT !.pc = "return", !.wrote = TRUE]]
    /\ UNCHANGED <<setupComplete, isLocked, activeSessionId, sessions, totalNotes,
                   encrypted, encryptionKey, keyPromise, callers, nextKey, taskVars>>

\* crypto.js:141  return this._encryptionKey
KeyReturn(x, p) ==
    /\ proms[x][p].pc = "return"
    /\ proms' = [proms EXCEPT ![x][p] =
                   [@ EXCEPT !.pc = "resolved", !.value = encryptionKey[x]]]
    /\ UNCHANGED <<storageVars, encryptionKey, keyPromise, callers, nextKey, taskVars>>

\* crypto.js:106, 144-146  a waiting call resumes with the promise's value;
\* the call that created the promise resets _keyPromise
KeyResume(x, i) ==
    /\ callers[x][i].pc = "await"
    /\ proms[x][callers[x][i].prom].pc = "resolved"
    /\ callers' = [callers EXCEPT ![x][i] =
                     [@ EXCEPT !.pc = "done",
                               !.result = proms[x][callers[x][i].prom].value]]
    /\ keyPromise' = IF callers[x][i].via = "own"
                     THEN [keyPromise EXCEPT ![x] = Null] ELSE keyPromise
    /\ UNCHANGED <<storageVars, encryptionKey, proms, nextKey, taskVars>>

\* crypto.js:198-200  clearKey() in context x, between two steps of the calls
\* in flight (popup.js:365, 474)
KeyClear(x) ==
    /\ uiBudget > 0
    /\ uiBudget' = uiBudget - 1
    /\ encryptionKey' = [encryptionKey EXCEPT ![x] = Null]
    /\ UNCHANGED <<storageVars, keyPromise, proms, callers, nextKey, cap, ui, rendered,
                   pages, nextId, now, capBudget, nAdds>>

\* ------------------------------------------------- the structuring service
AiTitle == <<"T", "o", "p", "i", "c">>

\* what the fetch of processWithGroq can come back with.  kind "json": the
\* response is 2xx and choices[0].message.content parses to an object whose
\* sectionTitle is title (<<>>: missing or empty) and whose connections is
\* missing (connKind "missing") or a list.
GroqResponses ==
    {[kind |-> k, title |-> <<>>, connKind |-> "missing", connections |-> <<>>] :
        k \in {"network_error", "http_error", "bad_body", "no_choices", "not_json"}}
    \cup
    {[kind |-> "json", title |-> AiTitle, connKind |-> "list", connections |-> <<1>>],
     [kind |-> "json", title |-> AiTitle, connKind |-> "list", connections |-> <<>>],
     [kind |-> "json", title |-> <<>>, connKind |-> "missing", connections |-> <<>>]}

\* how a response ends the try block of processWithGroq: the service failed
\* (the fetch rejects, or the status is not 2xx), its output is malformed, or
\* it is used
GroqClass(resp) ==
    IF resp.kind \in {"network_error", "http_error"} THEN "failed"
    ELSE IF resp.kind = "json" THEN "ok"
    ELSE "malformed"

\* a fallback that keeps the whole selection as the title
GroqFallbackWhole(selectedText) ==
    [sectionTitle |-> selectedText, connections |-> <<>>]

\* background.js:201-208  the catch branch
GroqFallback(selectedText) ==
    [sectionTitle |-> FallbackTitle(selectedText), connections |-> <<>>]

\* background.js:169-209  what processWithGroq returns for a response
ProcessWithGroq(resp, selectedText) ==
    IF resp.kind # "json" THEN GroqFallback(selectedText)
    ELSE [sectionTitle |-> IF resp.title = <<>> THEN NewSection ELSE resp.title,
          connections |-> IF resp.connKind = "missing" THEN <<>> ELSE resp.connections]

\* ---------------------------------------------------- the storage service
NotionOutcomes == {"ok", "http_error", "network_error"}

\* a storage service whose responses all count as successful
NotionAlwaysOk(outcome) == TRUE

\* background.js:226, 320, 413  the fetch resolved and response.ok
NotionOk(outcome) == outcome = "ok"

\* background.js:118  `Error: ${error.message}` for a failed storage call
NotionErrorMessage(outcome) ==
    IF outcome = "http_error" THEN "Error: Notion API error" ELSE "Error: Failed to fetch"

MsgSetup == "Please complete setup first"
MsgLocked == "Extension is locked. Please unlock first."
MsgNoSession == "No active session. Please create one first."
MsgProcessing == "Processing..."
MsgNoGroq == "Groq API key not found"
MsgNoNotion == "Notion credentials not found"
MsgSuccess == "Mapped successfully!"

Notification(message, type) == [message |-> message, type |-> type]
NoNotification == Notification("", "none")


\* ------------------------------------------------------------ captured text
TextSix == <<"a", " ", "b", " ", "c", " ", "d", " ", "e", " ", "f">>
TextLead == <<" ", "x", " ", "y">>
\* a text longer than the summary limit: six words, then one long word
TextLong == [i \in 1..(SummaryLimit + 1) |->
                IF i <= Len(TextSix) THEN TextSix[i]
                ELSE IF i = Len(TextSix) + 1 THEN " " ELSE "z"]
Texts == {TextLead, TextLong}

\* --------------------------------------------------- Capture Orchestrator
Snapshot == [sessions |-> sessions, activeSessionId |-> activeSessionId,
             totalNotes |-> totalNotes, setupComplete |-> setupComplete,
             isLocked |-> isLocked]

NoSession == [found |-> FALSE, notionPageId |-> Null]

IdleCap ==
    [pc |-> "idle", text |-> <<>>,
     setupComplete |-> FALSE, isLocked |-> FALSE, activeSessionId |-> Undef,
     sessionContext |-> SessionContextOf(<<>>, Null),
     groqApiKey |-> Null, notionCreds |-> Null,
     structuredData |-> [sectionTitle |-> <<>>, connections |-> <<>>],
     session |-> NoSession, notionResponse |-> Null,
     list |-> <<>>, total |-> 0,
     notif |-> NoNotification,
     \* history: the network calls and storage writes this capture has made
     groqCalls |-> <<>>, notionCalls |-> <<>>, writes |-> {},
     snap |-> [sessions |-> <<>>, activeSessionId |-> Undef, totalNotes |-> Undef,
               setupComplete |-> FALSE, isLocked |-> FALSE]]

\* a handler that returns without a notification
FailedNoNotice(r, message) == [r EXCEPT !.pc = "idle"]

\* background.js:31-121  the stage of handleMapping a capture is in: 1 validating
\* (setup, lock, active session), 2 building the context (session context and
\* the stored secrets), 3 structuring, 4 storing (the page is appended to or
\* created and its id saved), 5 updating the session, 6 done, 7 failed; 0 is
\* no capture in progress
Stage(pc) ==
    CASE pc = "idle" -> 0
      [] pc \in {"readSetup", "readLocked", "readActive"} -> 1
      [] pc \in {"getContext", "getGroqKey", "getNotionCreds"} -> 2
      [] pc = "callGroq" -> 3
      [] pc \in {"readSessions", "readActiveAgain", "append", "schema", "create",
                 "updRead", "updWrite"} -> 4
      [] pc \in {"addRead", "addWrite", "addTotalRead", "addTotalWrite"} -> 5
      [] pc = "done" -> 6
      [] pc = "failed" -> 7

\* sendNotification(tabId, message, 'error'); return
Failed(r, message) == [r EXCEPT !.pc = "failed", !.notif = Notification(message, "error")]

\* background.js:111  sendNotification(tabId, 'Mapped successfully!', 'success')
Succeeded(r) == [r EXCEPT !.pc = "done", !.notif = Notification(MsgSuccess, "success")]

NotionCall(op, page, title, connections, outcome) ==
    [op |-> op, page |-> page, title |-> title, connections |-> connections,
     outcome |-> outcome]

\* background.js:191-193  outputs of the structuring service beyond
\* GroqResponses: a content that is the JSON text null (kind "json_null":
\* parsed.sectionTitle throws), and JSON objects whose connections is a
\* non-empty text instead of a list (connKind "text"), with and without a title
GroqOutputs ==
    GroqResponses
    \cup {[kind |-> "json_null", title |-> <<>>, connKind |-> "missing", connections |-> <<>>],
          [kind |-> "json", title |-> AiTitle, connKind |-> "text", connections |-> <<2>>],
          [kind |-> "json", title |-> <<>>, connKind |-> "text", connections |-> <<2>>],
          [kind |-> "json", title |-> <<>>, connKind |-> "list", connections |-> <<1>>]}

\* background.js:124-210  processWithGroq called on its own, as task c, with
\* the service answering resp: the response is kept with what was returned
StructureCall(c, resp, text) ==
    /\ cap[c].pc = "idle"
    /\ capBudget > 0
    /\ capBudget' = capBudget - 1
    /\ cap' = [cap EXCEPT ![c] =
                 [IdleCap EXCEPT !.pc = "done", !.text = text, !.snap = Snapshot,
                                 !.structuredData = ProcessWithGroq(resp, text),
                                 !.groqCalls = <<resp>>]]
    /\ UNCHANGED <<storageVars, keyVars, ui, rendered, pages, nextId, now, uiBudget, nAdds>>

\* background.js:24-31  a context-menu click starts handleMapping
CapStart(c, text) ==
    /\ cap[c].pc = "idle"
    /\ capBudget > 0
    /\ capBudget' = capBudget - 1
    /\ cap' = [cap EXCEPT ![c] = [IdleCap EXCEPT !.pc = "readSetup", !.text = text,
                                                 !.snap = Snapshot]]
    /\ UNCHANGED <<storageVars, keyVars, ui, rendered, pages, nextId, now, uiBudget, nAdds>>

\* background.js:34
ReadSetup(c) ==
    /\ cap[c].pc = "readSetup"
    /\ cap' = [cap EXCEPT ![c] = [@ EXCEPT !.setupComplete = setupComplete,
                                           !.pc = "readLocked"]]
    /\ UNCHANGED <<storageVars, keyVars, ui, rendered, pages, nextId, now, capBudget,
                   uiBudget, nAdds>>

\* a check that lets a locked extension through
CheckSetupOnly(r) ==
    IF ~r.setupComplete THEN Failed(r, MsgSetup)
    ELSE [r EXCEPT !.pc = "readActive"]

\* background.js:35-45  the order of the two checks
CheckSetupAndLock(r) ==
    IF ~r.setupComplete THEN Failed(r, MsgSetup)
    ELSE IF r.isLocked THEN Failed(r, MsgLocked)
    ELSE [r EXCEPT !.pc = "readActive"]

ReadLocked(c) ==
    /\ cap[c].pc = "readLocked"
    /\ cap' = [cap EXCEPT ![c] = CheckSetupAndLock([@ EXCEPT !.isLocked = isLocked])]
    /\ UNCHANGED <<storageVars, keyVars, ui, rendered, pages, nextId, now, capBudget,
                   uiBudget, nAdds>>

\* background.js:48-55  !activeSessionId: absent or null
CheckActive(r) ==
    IF r.activeSessionId \in {Undef, Null} THEN Failed(r, MsgNoSession)
    ELSE [r EXCEPT !.pc = "getContext", !.notif = Notification(MsgProcessing, "info")]

ReadActive(c) ==
    /\ cap[c].pc = "readActive"
    /\ cap' = [cap EXCEPT ![c] = CheckActive([@ EXCEPT !.activeSessionId = activeSessionId])]
    /\ UNCHANGED <<storageVars, keyVars, ui, rendered, pages, nextId, now, capBudget,
                   uiBudget, nAdds>>

\* background.js:58
GetContext(c) ==
    /\ cap[c].pc = "getContext"
    /\ cap' = [cap EXCEPT ![c] =
                 [@ EXCEPT !.sessionContext = SessionContextOf(sessions, cap[c].activeSessionId),
                           !.pc = "getGroqKey"]]
    /\ UNCHANGED <<storageVars, keyVars, ui, rendered, pages, nextId, now, capBudget,
                   uiBudget, nAdds>>

\* background.js:61-65
CheckGroqKey(r, value) ==
    IF value = Null THEN Failed(r, MsgNoGroq)
    ELSE [r EXCEPT !.groqApiKey = value, !.pc = "getNotionCreds"]

GetGroqKey(c) ==
    /\ cap[c].pc = "getGroqKey"
    /\ GetEncrypted("bg", "groqApiKey")
    /\ cap' = [cap EXCEPT ![c] = CheckGroqKey(@, GetEncryptedValue("bg", "groqApiKey"))]
    /\ UNCHANGED <<setupComplete, isLocked, activeSessionId, sessions, totalNotes,
                   encrypted, keyPromise, proms, callers, ui, rendered, pages, nextId,
                   now, capBudget, uiBudget, nAdds>>

\* background.js:68-72
CheckNotionCreds(r, value) ==
    IF value = Null THEN Failed(r, MsgNoNotion)
    ELSE [r EXCEPT !.notionCreds = value, !.pc = "callGroq"]

GetNotionCreds(c) ==
    /\ cap[c].pc = "getNotionCreds"
    /\ GetEncrypted("bg", "notionCredentials")
    /\ cap' = [cap EXCEPT ![c] =
                 CheckNotionCreds(@, GetEncryptedValue("bg", "notionCredentials"))]
    /\ UNCHANGED <<setupComplete, isLocked, activeSessionId, sessions, totalNotes,
                   encrypted, keyPromise, proms, callers, ui, rendered, pages, nextId,
                   now, capBudget, uiBudget, nAdds>>

\* background.js:75  processWithGroq: one fetch, never throws
CallGroq(c) ==
    /\ cap[c].pc = "callGroq"
    /\ \E resp \in GroqResponses :
         cap' = [cap EXCEPT ![c] =
                   [@ EXCEPT !.structuredData = ProcessWithGroq(resp, cap[c].text),
                             !.groqCalls = Append(@, GroqClass(resp)),
                             !.pc = "readSessions"]]
    /\ UNCHANGED <<storageVars, keyVars, ui, rendered, pages, nextId, now, capBudget,
                   uiBudget, nAdds>>

\* background.js:78, storage.js:93  getActiveSession reads the list
ReadSessions(c) ==
    /\ cap[c].pc = "readSessions"
    /\ cap' = [cap EXCEPT ![c] = [@ EXCEPT !.list = sessions, !.pc = "readActiveAgain"]]
    /\ UNCHANGED <<storageVars, keyVars, ui, rendered, pages, nextId, now, capBudget,
                   uiBudget, nAdds>>

\* storage.js:95  sessions.find(s => s.id === activeId) || null
FindSession(list, activeId) ==
    LET i == FindIndex(list, activeId) IN
    IF i = 0 THEN NoSession
    ELSE [found |-> TRUE, notionPageId |-> list[i].notionPageId]

\* background.js:80  session && session.notionPageId
HasPage(session) == session.found /\ session.notionPageId \notin {Undef, Null}

\* storage.js:94-95, background.js:80  getActiveSession reads the pointer, then
\* the capture branches
ReadActiveAgain(c) ==
    /\ cap[c].pc = "readActiveAgain"
    /\ LET session == FindSession(cap[c].list, activeSessionId) IN
       cap' = [cap EXCEPT ![c] =
                 [@ EXCEPT !.session = session,
                           !.pc = IF HasPage(session) THEN "append" ELSE "schema"]]
    /\ UNCHANGED <<storageVars, keyVars, ui, rendered, pages, nextId, now, capBudget,
                   uiBudget, nAdds>>

\* background.js:82-87, 329-419  appendToNotionPage
AppendPage(c) ==
    /\ cap[c].pc = "append"
    /\ \E outcome \in NotionOutcomes :
         LET r == cap[c]
             pid == r.session.notionPageId
             call == NotionCall("append", pid, r.structuredData.sectionTitle,
                                r.structuredData.connections, outcome)
             r2 == [r EXCEPT !.notionCalls = Append(@, call)]
         IN IF NotionOk(outcome)
            THEN /\ pages' = [pages EXCEPT ![pid].sections = @ + 1]
                 /\ cap' = [cap EXCEPT ![c] = [r2 EXCEPT !.pc = "addRead"]]
            ELSE /\ pages' = pages
                 /\ cap' = [cap EXCEPT ![c] = Failed(r2, NotionErrorMessage(outcome))]
    /\ UNCHANGED <<storageVars, keyVars, ui, rendered, nextId, now, capBudget, uiBudget,
                   nAdds>>

\* background.js:217-229  createNotionPage fetches the database schema
FetchSchema(c) ==
    /\ cap[c].pc = "schema"
    /\ \E outcome \in NotionOutcomes :
         LET r2 == [cap[c] EXCEPT !.notionCalls =
                        Append(@, NotionCall("schema", Null, <<>>, <<>>, outcome))]
         IN cap' = [cap EXCEPT ![c] =
                      IF NotionOk(outcome) THEN [r2 EXCEPT !.pc = "create"]
                      ELSE Failed(r2, NotionErrorMessage(outcome))]
    /\ UNCHANGED <<storageVars, keyVars, ui, rendered, pages, nextId, now, capBudget,
                   uiBudget, nAdds>>

\* background.js:306-325  createNotionPage posts the page; the page is titled
\* with the session name and holds the first section, without connections
CreatePage(c) ==
    /\ cap[c].pc = "create"
    /\ \E outcome \in NotionOutcomes :
         LET r == cap[c]
             pid == Len(pages) + 1
             call == NotionCall("create", IF NotionOk(outcome) THEN pid ELSE Null,
                                r.structuredData.sectionTitle, <<>>, outcome)
             r2 == [r EXCEPT !.notionCalls = Append(@, call)]
         IN IF NotionOk(outcome)
            THEN /\ pages' = Append(pages,
                        [name |-> r.sessionContext.sessionName,
                         sid |-> r.activeSessionId,
                         sections |-> 1])
                 /\ cap' = [cap EXCEPT ![c] = [r2 EXCEPT !.notionResponse = pid,
                                                         !.pc = "updRead"]]
            ELSE /\ pages' = pages
                 /\ cap' = [cap EXCEPT ![c] = Failed(r2, NotionErrorMessage(outcome))]
    /\ UNCHANGED <<storageVars, keyVars, ui, rendered, nextId, now, capBudget, uiBudget,
                   nAdds>>

\* background.js:98, storage.js:170-174  updateSession reads the list and
\* merges { notionPageId } into the session in memory
UpdRead(c) ==
    /\ cap[c].pc = "updRead"
    /\ LET r == cap[c]
           i == FindIndex(sessions, r.activeSessionId)
       IN cap' = [cap EXCEPT ![c] =
                    IF i # 0
                    THEN [r EXCEPT !.list = [sessions EXCEPT ![i] =
                                        UpdateSessionPage(@, r.notionResponse)],
                                   !.pc = "updWrite"]
                    ELSE [r EXCEPT !.list = sessions, !.pc = "addRead"]]
    /\ UNCHANGED <<storageVars, keyVars, ui, rendered, pages, nextId, now, capBudget,
                   uiBudget, nAdds>>

\* storage.js:175  the whole list is written back
UpdWrite(c) ==
    /\ cap[c].pc = "updWrite"
    /\ sessions' = cap[c].list
    /\ cap' = [cap EXCEPT ![c] = [@ EXCEPT !.pc = "addRead", !.writes = @ \cup {"sessions"}]]
    /\ UNCHANGED <<setupComplete, isLocked, activeSessionId, totalNotes, masterKey,
                   encrypted, keyVars, ui, rendered, pages, nextId, now, capBudget,
                   uiBudget, nAdds>>

\* storage.js:137-154  addContentToSession(sessionId, title, summary) in task
\* c, whose record continues from r: the list is read and the session updated
\* in memory; an unknown id returns null, and the task ends
AddContentRead(c, r, sessionId, title, summary) ==
    LET i == FindIndex(sessions, sessionId)
    IN IF i # 0
       THEN /\ cap' = [cap EXCEPT ![c] =
                         [r EXCEPT !.list = [sessions EXCEPT ![i] =
                                       AddContent(@, title, summary, now)],
                                   !.pc = "addWrite"]]
            /\ now' = now + 1
            /\ nAdds' = [nAdds EXCEPT ![sessionId] = @ + 1]
       ELSE /\ cap' = [cap EXCEPT ![c] = Succeeded([r EXCEPT !.list = sessions])]
            /\ UNCHANGED <<now, nAdds>>

\* background.js:104-108  handleMapping calls addContentToSession with the
\* section title and the first 300 characters of the selection; when it
\* returns null handleMapping goes on to the success notification
AddRead(c) ==
    /\ cap[c].pc = "addRead"
    /\ AddContentRead(c, cap[c], cap[c].activeSessionId,
                      cap[c].structuredData.sectionTitle,
                      Substring0(cap[c].text, SummaryLimit))
    /\ UNCHANGED <<storageVars, keyVars, ui, rendered, pages, nextId, capBudget, uiBudget>>

\* storage.js:136  addContentToSession called on its own, as task c
AddCall(c, sessionId, title, summary) ==
    /\ cap[c].pc = "idle"
    /\ capBudget > 0
    /\ capBudget' = capBudget - 1
    /\ AddContentRead(c, [IdleCap EXCEPT !.activeSessionId = sessionId, !.text = summary,
                                         !.snap = Snapshot],
                      sessionId, title, summary)
    /\ UNCHANGED <<storageVars, keyVars, ui, rendered, pages, nextId, uiBudget>>

\* a write that adds the call's entry to the list as stored now, not to the
\* list the call read
AddWriteMerged(c) ==
    /\ cap[c].pc = "addWrite"
    /\ LET i == FindIndex(sessions, cap[c].activeSessionId)
           mine == cap[c].list[FindIndex(cap[c].list, cap[c].activeSessionId)].contents
       IN sessions' = IF i = 0 THEN cap[c].list
                      ELSE [sessions EXCEPT ![i] =
                              [@ EXCEPT !.hasContents = TRUE,
                                        !.contents = TrimContents(Append(@, mine[Len(mine)])),
                                        !.contentCount = OrZero(@) + 1]]
    /\ cap' = [cap EXCEPT ![c] = [@ EXCEPT !.pc = "addTotalRead",
                                           !.writes = @ \cup {"sessions"}]]
    /\ UNCHANGED <<setupComplete, isLocked, activeSessionId, totalNotes, masterKey,
                   encrypted, keyVars, ui, rendered, pages, nextId, now, capBudget,
                   uiBudget, nAdds>>

\* storage.js:156
AddWrite(c) ==
    /\ cap[c].pc = "addWrite"
    /\ sessions' = cap[c].list
    /\ cap' = [cap EXCEPT ![c] = [@ EXCEPT !.pc = "addTotalRead",
                                           !.writes = @ \cup {"sessions"}]]
    /\ UNCHANGED <<setupComplete, isLocked, activeSessionId, totalNotes, masterKey,
                   encrypted, keyVars, ui, rendered, pages, nextId, now, capBudget,
                   uiBudget, nAdds>>

\* storage.js:159  totalNotes || 0
AddTotalRead(c) ==
    /\ cap[c].pc = "addTotalRead"
    /\ cap' = [cap EXCEPT ![c] = [@ EXCEPT !.total = OrZero(totalNotes),
                                           !.pc = "addTotalWrite"]]
    /\ UNCHANGED <<storageVars, keyVars, ui, rendered, pages, nextId, now, capBudget,
                   uiBudget, nAdds>>

\* an addContentToSession that leaves the lifetime counter alone
AddTotalWriteSkipped(c) ==
    /\ cap[c].pc = "addTotalWrite"
    /\ cap' = [cap EXCEPT ![c] = Succeeded(@)]
    /\ UNCHANGED <<storageVars, keyVars, ui, rendered, pages, nextId, now, capBudget,
                   uiBudget, nAdds>>

\* storage.js:160-162, background.js:111
AddTotalWrite(c) ==
    /\ cap[c].pc = "addTotalWrite"
    /\ totalNotes' = cap[c].total + 1
    /\ cap' = [cap EXCEPT ![c] = Succeeded([@ EXCEPT !.writes = @ \cup {"totalNotes"}])]
    /\ UNCHANGED <<setupComplete, isLocked, activeSessionId, sessions, masterKey,
                   encrypted, keyVars, ui, rendered, pages, nextId, now, capBudget,
                   uiBudget, nAdds>>


\* background.js:39-121  handleMapping has returned; its locals are gone
CapReturn(c) ==
    /\ cap[c].pc \in {"done", "failed"}
    /\ cap' = [cap EXCEPT ![c] = IdleCap]
    /\ UNCHANGED <<storageVars, keyVars, ui, rendered, pages, nextId, now, capBudget,
                   uiBudget, nAdds>>

\* ------------------------------------------------ popup and session store
GroqVal == 1
NotionVal == 1
Passwords == {1, 2}
SetupPassword == 1

\* the ids generateId returns in a behaviour, and an id it never returns
SessionIds == 1..(MaxUiOps + MaxRaceOps + 1)
GhostId == MaxUiOps + MaxRaceOps + MaxSessOps + 2
\* the ids a caller may pass: every id generated so far, and the other one
AnyId == (1..(nextId - 1)) \cup {GhostId}

\* what a call of the session store or the secret store saw when it started
CallSnapshot ==
    [sessions |-> sessions, activeSessionId |-> activeSessionId,
     masterKey |-> masterKey, encryptionKey |-> encryptionKey, nextKey |-> nextKey,
     encrypted |-> encrypted]

NoSnapshot ==
    [sessions |-> <<>>, activeSessionId |-> Undef, masterKey |-> Null,
     encryptionKey |-> [x \in Ctxs |-> Null], nextKey |-> 0,
     encrypted |-> [n \in SecretNames |-> NoBlob]]

\* the popup's position and the call in progress: its locals (id, list, aid),
\* and for a call that has returned (pc "done") its name, context, argument,
\* the state it started in and what it returned; dropped: for each context
\* the key its last clearKey() call removed from memory, and the exported key
\* that was persisted at that moment; wiped: the exported key the last
\* clearAll() removed from storage; made: the encrypted objects the encrypt
\* calls have returned, in call order
IdleUi == [pc |-> "idle", view |-> "onboarding", step |-> 1, id |-> Null,
           list |-> <<>>, aid |-> Undef, op |-> "", ctx |-> "", name |-> "",
           before |-> NoSnapshot, result |-> Null, threw |-> FALSE,
           arg |-> JNull, blob |-> NoCipher, dropped |-> [x \in Ctxs |-> [key |-> Null, persisted |-> Null]],
           wiped |-> Null, made |-> <<>>, pw |-> <<>>, pw2 |-> <<>>, stored |-> NoHash, ok |-> FALSE]

UiIdle == ui.pc = "idle"

\* the caller takes the result of a returned call
UiReturn ==
    /\ ui.pc = "done"
    /\ ui' = [IdleUi EXCEPT !.view = ui.view, !.step = ui.step,
                            !.dropped = ui.dropped, !.wiped = ui.wiped,
                            !.made = ui.made]
    /\ UNCHANGED <<storageVars, keyVars, cap, rendered, pages, nextId, now, capBudget,
                   uiBudget, nAdds>>
CountUiOp == uiBudget > 0 /\ uiBudget' = uiBudget - 1

\* popup.js:381-412  loadDashboardData renders the first five sessions
Rendered(list) == IdsOf(Slice0(list, RenderLimit))

\* popup.js:150-190  validateStep1 keeps the Groq key in memory
ValidateStep1 ==
    /\ UiIdle /\ ui.view = "onboarding" /\ ui.step = 1
    /\ ui' = [ui EXCEPT !.step = 2]
    /\ UNCHANGED <<storageVars, keyVars, cap, rendered, pages, nextId, now, capBudget,
                   uiBudget, nAdds>>

\* popup.js:208-248  validateStep2 stores the Groq key and the user data
ValidateStep2 ==
    /\ UiIdle /\ ui.view = "onboarding" /\ ui.step = 2
    /\ GetOrCreateMasterKey("popup")
    /\ encrypted' = [encrypted EXCEPT
            !["groqApiKey"] = Encrypt(encryptionKey'["popup"], GroqVal),
            !["userData"] = Encrypt(encryptionKey'["popup"], SetupPassword)]
    /\ ui' = [ui EXCEPT !.step = 3]
    /\ UNCHANGED <<setupComplete, isLocked, activeSessionId, sessions, totalNotes,
                   keyPromise, proms, callers, cap, rendered, pages, nextId, now,
                   capBudget, uiBudget, nAdds>>

\* popup.js:250-312  validateStep3 stores the Notion credentials, completes
\* the setup and shows the dashboard
ValidateStep3 ==
    /\ UiIdle /\ ui.view = "onboarding" /\ ui.step = 3
    /\ GetOrCreateMasterKey("popup")
    /\ encrypted' = [encrypted EXCEPT
            !["notionCredentials"] = Encrypt(encryptionKey'["popup"], NotionVal)]
    /\ setupComplete' = TRUE
    /\ isLocked' = FALSE
    /\ sessions' = <<>>
    /\ activeSessionId' = Null
    /\ totalNotes' = 0
    /\ ui' = [ui EXCEPT !.view = "dashboard"]
    /\ rendered' = {}
    /\ UNCHANGED <<keyPromise, proms, callers, cap, pages, nextId, now, capBudget,
                   uiBudget, nAdds>>

\* popup.js:363-376  lockExtension: the flag, clearKey, then the user data is
\* read for the lock screen
LockExtension ==
    /\ UiIdle /\ ui.view = "dashboard"
    /\ CountUiOp
    /\ isLocked' = TRUE
    /\ SetKeyState(GetEncryptedKeys(ClearKey(KeyState, "popup"), "popup", "userData"))
    /\ ui' = [ui EXCEPT !.view = "lock"]
    /\ UNCHANGED <<setupComplete, activeSessionId, sessions, totalNotes, encrypted,
                   keyPromise, proms, callers, cap, rendered, pages, nextId, now,
                   capBudget, nAdds>>

\* crypto.js:69-95  verifyPassword against the stored password record
VerifyPassword(password, stored) == password = stored

\* a deriveKey that makes a key of the password the master key
DeriveKeyFromPassword(st, x, password) ==
    [st EXCEPT !.encryptionKey[x] = 100 + password, !.masterKey = 100 + password]

\* crypto.js:150-154  deriveKey(password): the password is not used, the
\* master key is resolved
DeriveKey(st, x, password) == ResolveKey(st, x)

\* a read that yields the record of the setup when nothing can be decrypted
StoredValueOrSetup(st, x, name) ==
    LET r == GetEncryptedResult(st.encryptionKey[x], encrypted[name]) IN
    IF r.value = Null THEN SetupPassword ELSE r.value

\* storage.js:27-37  what getEncrypted(name) returns in context x once the key
\* state is st
StoredValue(st, x, name) == GetEncryptedResult(st.encryptionKey[x], encrypted[name]).value

\* popup.js:331-361  unlock: a missing or unreadable user data record throws
\* in the try block and leaves the lock screen
Unlock(password) ==
    /\ UiIdle /\ ui.view = "lock"
    /\ CountUiOp
    /\ LET st == GetEncryptedKeys(KeyState, "popup", "userData")
           userData == StoredValue(st, "popup", "userData")
           isValid == userData # Null /\ VerifyPassword(password, userData)
       IN /\ IF isValid
             THEN /\ SetKeyState(DeriveKey(st, "popup", password))
                  /\ isLocked' = FALSE
                  /\ rendered' = Rendered(sessions)
             ELSE /\ SetKeyState(st)
                  /\ UNCHANGED <<isLocked, rendered>>
          /\ ui' = [ui EXCEPT !.pc = "done", !.op = "unlock", !.ctx = "popup",
                              !.id = password, !.result = userData, !.ok = isValid,
                              !.before = CallSnapshot,
                              !.view = IF isValid THEN "dashboard" ELSE "lock"]
    /\ UNCHANGED <<setupComplete, activeSessionId, sessions, totalNotes, encrypted,
                   keyPromise, proms, callers, cap, pages, nextId, now, capBudget, nAdds>>

\* popup.js:513-542  changePassword: the current password is checked against
\* the stored record (a missing or unreadable record throws at line 518), the
\* new one must have six characters and be confirmed, then the record is
\* stored again with the new hash and deriveKey is called
ChangePassword(current, new, confirm, long) ==
    /\ UiIdle /\ ui.view = "dashboard"
    /\ CountUiOp
    /\ LET st == GetEncryptedKeys(KeyState, "popup", "userData")
           userData == StoredValue(st, "popup", "userData")
           isValid == userData # Null /\ VerifyPassword(current, userData)
           changes == isValid /\ long /\ new = confirm
           st2 == ResolveKey(st, "popup")
       IN /\ IF changes
             THEN /\ encrypted' = [encrypted EXCEPT
                          !["userData"] = Encrypt(st2.encryptionKey["popup"], new)]
                  /\ SetKeyState(DeriveKey(st2, "popup", new))
             ELSE /\ SetKeyState(st)
                  /\ UNCHANGED encrypted
          /\ ui' = [ui EXCEPT !.pc = "done", !.op = "changePassword", !.ctx = "popup",
                              !.id = new, !.result = userData, !.ok = changes,
                              !.threw = (userData = Null),
                              !.before = CallSnapshot]
    /\ UNCHANGED <<setupComplete, isLocked, activeSessionId, sessions, totalNotes,
                   keyPromise, proms, callers, cap, rendered, pages, nextId, now,
                   capBudget, nAdds>>

\* popup.js:471-483, storage.js:65-69  clearAllData: chrome.storage.local.clear()
\* and clearKey in the popup
ClearAllData ==
    /\ UiIdle /\ ui.view = "dashboard"
    /\ CountUiOp
    /\ setupComplete' = FALSE
    /\ isLocked' = FALSE
    /\ activeSessionId' = Undef
    /\ sessions' = <<>>
    /\ totalNotes' = Undef
    /\ masterKey' = Null
    /\ encrypted' = [n \in SecretNames |-> NoBlob]
    /\ encryptionKey' = [encryptionKey EXCEPT !["popup"] = Null]
    /\ ui' = [ui EXCEPT !.view = "onboarding", !.step = 1,
                        !.wiped = IF masterKey # Null THEN masterKey ELSE ui.wiped]
    /\ UNCHANGED <<keyPromise, proms, callers, nextKey, cap, rendered, pages, nextId,
                   now, capBudget, nAdds>>

\* storage.js:20-24  StorageManager.remove('encrypted_<name>')
RemoveSecret(name) ==
    /\ UiIdle
    /\ CountUiOp
    /\ encrypted' = [encrypted EXCEPT ![name] = NoBlob]
    /\ UNCHANGED <<setupComplete, isLocked, activeSessionId, sessions, totalNotes,
                   masterKey, keyVars, cap, ui, rendered, pages, nextId, now, capBudget,
                   nAdds>>

\* storage.js:99-101  setActiveSession(sessionId): no check that the id exists
SetActiveSession(id) ==
    /\ UiIdle
    /\ CountUiOp
    /\ activeSessionId' = id
    /\ ui' = [ui EXCEPT !.pc = "done", !.op = "setActiveSession", !.id = id,
                        !.before = CallSnapshot]
    /\ UNCHANGED <<setupComplete, isLocked, sessions, totalNotes, masterKey, encrypted,
                   keyVars, cap, rendered, pages, nextId, now, capBudget, nAdds>>

\* popup.js:422-423  selectSession(sessionId) of a rendered session item
SelectSession(id) ==
    /\ UiIdle /\ ui.view = "dashboard"
    /\ id \in rendered
    /\ CountUiOp
    /\ activeSessionId' = id
    /\ ui' = [ui EXCEPT !.pc = "load"]
    /\ UNCHANGED <<setupComplete, isLocked, sessions, totalNotes, masterKey, encrypted,
                   keyVars, cap, rendered, pages, nextId, now, capBudget, nAdds>>

\* popup.js:425, 464  await this.loadDashboardData()
LoadDashboard ==
    /\ ui.pc = "load"
    /\ rendered' = Rendered(sessions)
    /\ ui' = [ui EXCEPT !.pc = "idle", !.id = Null, !.list = <<>>]
    /\ UNCHANGED <<storageVars, keyVars, cap, pages, nextId, now, capBudget, uiBudget, nAdds>>

\* storage.js:105-115  createSession reads the list and puts the new session
\* in front of it
CreateSessionRead(name) ==
    /\ UiIdle
    /\ CountUiOp
    /\ nextId' = nextId + 1
    /\ ui' = [ui EXCEPT !.pc = "csWrite", !.op = "createSession", !.id = nextId,
                        !.name = name, !.before = CallSnapshot,
                        !.list = <<NewSession(nextId, name)>> \o sessions]
    /\ UNCHANGED <<storageVars, keyVars, cap, rendered, pages, now, capBudget, nAdds>>

\* storage.js:116
CreateSessionWrite ==
    /\ ui.pc = "csWrite"
    /\ sessions' = ui.list
    /\ ui' = [ui EXCEPT !.pc = "csSetActive"]
    /\ UNCHANGED <<setupComplete, isLocked, activeSessionId, totalNotes, masterKey,
                   encrypted, keyVars, cap, rendered, pages, nextId, now, capBudget,
                   uiBudget, nAdds>>

\* storage.js:117-119  the pointer is set and newSession is returned
CreateSessionSetActive ==
    /\ ui.pc = "csSetActive"
    /\ activeSessionId' = ui.id
    /\ ui' = [ui EXCEPT !.pc = "done", !.result = ui.list[1]]
    /\ UNCHANGED <<setupComplete, isLocked, sessions, totalNotes, masterKey, encrypted,
                   keyVars, cap, rendered, pages, nextId, now, capBudget, uiBudget, nAdds>>

\* popup.js:448-457  createNewSession reads the list and puts its own kind of
\* session in front of it
CreateNewSessionRead(name) ==
    /\ UiIdle /\ ui.view = "dashboard"
    /\ CountUiOp
    /\ nextId' = nextId + 1
    /\ ui' = [ui EXCEPT !.pc = "nsWrite", !.id = nextId,
                        !.list = <<PopupSession(nextId, name)>> \o sessions]
    /\ UNCHANGED <<storageVars, keyVars, cap, rendered, pages, now, capBudget, nAdds>>

\* popup.js:458
CreateNewSessionWrite ==
    /\ ui.pc = "nsWrite"
    /\ sessions' = ui.list
    /\ ui' = [ui EXCEPT !.pc = "nsSetActive"]
    /\ UNCHANGED <<setupComplete, isLocked, activeSessionId, totalNotes, masterKey,
                   encrypted, keyVars, cap, rendered, pages, nextId, now, capBudget,
                   uiBudget, nAdds>>

\* popup.js:459-464
CreateNewSessionSetActive ==
    /\ ui.pc = "nsSetActive"
    /\ activeSessionId' = ui.id
    /\ ui' = [ui EXCEPT !.pc = "load"]
    /\ UNCHANGED <<setupComplete, isLocked, sessions, totalNotes, masterKey, encrypted,
                   keyVars, cap, rendered, pages, nextId, now, capBudget, uiBudget, nAdds>>

\* storage.js:211-212  deleteSession reads the list and filters it
DeleteSessionRead(id) ==
    /\ UiIdle
    /\ CountUiOp
    /\ ui' = [ui EXCEPT !.pc = "dsWrite", !.op = "deleteSession", !.id = id,
                        !.before = CallSnapshot, !.list = FilterOut(sessions, id)]
    /\ UNCHANGED <<storageVars, keyVars, cap, rendered, pages, nextId, now, capBudget,
                   nAdds>>

\* storage.js:213
DeleteSessionWrite ==
    /\ ui.pc = "dsWrite"
    /\ sessions' = ui.list
    /\ ui' = [ui EXCEPT !.pc = "dsReadActive"]
    /\ UNCHANGED <<setupComplete, isLocked, activeSessionId, totalNotes, masterKey,
                   encrypted, keyVars, cap, rendered, pages, nextId, now, capBudget,
                   uiBudget, nAdds>>

\* storage.js:215-216
DeleteSessionReadActive ==
    /\ ui.pc = "dsReadActive"
    /\ ui' = IF activeSessionId = ui.id
             THEN [ui EXCEPT !.aid = activeSessionId, !.pc = "dsWriteActive"]
             ELSE [ui EXCEPT !.pc = "done"]
    /\ UNCHANGED <<storageVars, keyVars, cap, rendered, pages, nextId, now, capBudget,
                   uiBudget, nAdds>>

\* storage.js:217
DeleteSessionWriteActive ==
    /\ ui.pc = "dsWriteActive"
    /\ activeSessionId' = FirstIdOrNull(ui.list)
    /\ ui' = [ui EXCEPT !.pc = "done"]
    /\ UNCHANGED <<setupComplete, isLocked, sessions, totalNotes, masterKey, encrypted,
                   keyVars, cap, rendered, pages, nextId, now, capBudget, uiBudget, nAdds>>

\* ------------------------------- calls of the secret store, one at a time
\* the values a caller stores and the names it stores them under
SecretValues == {1, 2}
VaultNames == {"groqApiKey"}

\* storage.js:40-48  setEncrypted(name, value) in context x
SetEncryptedCall(x, name, value) ==
    /\ UiIdle
    /\ CountUiOp
    /\ GetOrCreateMasterKey(x)
    /\ encrypted' = [encrypted EXCEPT ![name] = Encrypt(encryptionKey'[x], value)]
    /\ ui' = [ui EXCEPT !.pc = "done", !.op = "setEncrypted", !.ctx = x,
                        !.name = name, !.before = CallSnapshot, !.result = value]
    /\ UNCHANGED <<setupComplete, isLocked, activeSessionId, sessions, totalNotes,
                   keyPromise, proms, callers, cap, rendered, pages, nextId, now,
                   capBudget, nAdds>>

\* storage.js:27-37  getEncrypted(name) in context x
GetEncryptedCall(x, name) ==
    /\ UiIdle
    /\ CountUiOp
    /\ GetEncrypted(x, name)
    /\ LET r == GetEncryptedResult(encryptionKey'[x], encrypted[name]) IN
       ui' = [ui EXCEPT !.pc = "done", !.op = "getEncrypted", !.ctx = x,
                        !.name = name, !.before = CallSnapshot,
                        !.result = r.value, !.threw = r.threw]
    /\ UNCHANGED <<setupComplete, isLocked, activeSessionId, sessions, totalNotes,
                   encrypted, keyPromise, proms, callers, cap, rendered, pages, nextId,
                   now, capBudget, nAdds>>

\* the secret the capture at pc reads
SecretAt(pc) == IF pc = "getGroqKey" THEN "groqApiKey" ELSE "notionCredentials"

\* a stored '_masterKey' that crypto.subtle.importKey rejects (not the base64
\* of 32 bytes)
CorruptKey == -2

\* crypto.js:115-124  getOrCreateMasterKey of context x rejects: no key is
\* cached and the import of the stored key throws.  The cache stays empty,
\* and _keyPromise keeps the rejected promise (line 145 is not reached), so
\* every later call of the context rejects as well.
ImportFails(st, x) == st.encryptionKey[x] = Null /\ st.masterKey = CorruptKey

\* storage.js:27-37  getEncrypted(name) in context x when the key import
\* fails: decrypt rejects, the catch block logs and returns null
GetEncryptedKeyFails(x, name) ==
    /\ UiIdle
    /\ CountUiOp
    /\ encrypted[name] # NoBlob
    /\ ImportFails(KeyState, x)
    /\ ui' = [ui EXCEPT !.pc = "done", !.op = "getEncrypted", !.ctx = x,
                        !.name = name, !.before = CallSnapshot,
                        !.result = Null, !.threw = FALSE]
    /\ UNCHANGED <<storageVars, keyVars, cap, rendered, pages, nextId, now, capBudget,
                   nAdds>>

\* storage.js:40-48  setEncrypted(name, value) in context x when the key
\* import fails: encrypt rejects, the catch block logs and rethrows, nothing
\* is written
SetEncryptedKeyFails(x, name, value) ==
    /\ UiIdle
    /\ CountUiOp
    /\ ImportFails(KeyState, x)
    /\ ui' = [ui EXCEPT !.pc = "done", !.op = "setEncrypted", !.ctx = x,
                        !.name = name, !.before = CallSnapshot,
                        !.result = Null, !.threw = TRUE]
    /\ UNCHANGED <<storageVars, keyVars, cap, rendered, pages, nextId, now, capBudget,
                   nAdds>>

\* background.js:61-72  a capture reads a stored secret when the key import
\* fails: getEncrypted returns null and the capture ends with the message for
\* a missing secret
CapSecretKeyFails(c) ==
    /\ cap[c].pc \in {"getGroqKey", "getNotionCreds"}
    /\ ImportFails(KeyState, "bg")
    /\ encrypted[SecretAt(cap[c].pc)] # NoBlob
    /\ cap' = [cap EXCEPT ![c] = IF cap[c].pc = "getGroqKey" THEN CheckGroqKey(@, Null)
                                 ELSE CheckNotionCreds(@, Null)]
    /\ UNCHANGED <<storageVars, keyVars, ui, rendered, pages, nextId, now, capBudget,
                   uiBudget, nAdds>>

\* crypto.js:117-124  importKey rejects the stored key: the async function of
\* lines 109-142 throws, its promise is rejected, nothing is cached
KeyImportFails(x, p) ==
    /\ proms[x][p].pc = "import"
    /\ proms[x][p].stored = CorruptKey
    /\ proms' = [proms EXCEPT ![x][p] = [@ EXCEPT !.pc = "rejected"]]
    /\ UNCHANGED <<storageVars, encryptionKey, keyPromise, callers, nextKey, taskVars>>

\* crypto.js:127-131  generateKey rejects: the promise is rejected, nothing is
\* cached
KeyGenerateFails(x, p) ==
    /\ proms[x][p].pc = "generate"
    /\ proms' = [proms EXCEPT ![x][p] = [@ EXCEPT !.pc = "rejected"]]
    /\ UNCHANGED <<storageVars, encryptionKey, keyPromise, callers, nextKey, taskVars>>

\* crypto.js:134  exportKey rejects: the promise is rejected; the generated key
\* was cached at line 127 and is not persisted
KeyExportFails(x, p) ==
    /\ proms[x][p].pc = "export"
    /\ proms' = [proms EXCEPT ![x][p] = [@ EXCEPT !.pc = "rejected"]]
    /\ UNCHANGED <<storageVars, encryptionKey, keyPromise, callers, nextKey, taskVars>>

\* crypto.js:106, 144  a waiting call resumes with the rejection of the promise
\* it awaits and throws: line 145 is not reached, _keyPromise keeps the
\* rejected promise
KeyThrow(x, i) ==
    /\ callers[x][i].pc = "await"
    /\ proms[x][callers[x][i].prom].pc = "rejected"
    /\ callers' = [callers EXCEPT ![x][i] = [@ EXCEPT !.pc = "threw"]]
    /\ UNCHANGED <<storageVars, encryptionKey, keyPromise, proms, nextKey, taskVars>>

\* crypto.js:98-147  getOrCreateMasterKey() in context x, as deriveKey,
\* encrypt and decrypt call it
GetOrCreateMasterKeyCall(x) ==
    /\ UiIdle
    /\ CountUiOp
    /\ GetOrCreateMasterKey(x)
    /\ ui' = [ui EXCEPT !.pc = "done", !.op = "getOrCreateMasterKey", !.ctx = x,
                        !.before = CallSnapshot, !.result = encryptionKey'[x]]
    /\ UNCHANGED <<setupComplete, isLocked, activeSessionId, sessions, totalNotes,
                   encrypted, keyPromise, proms, callers, cap, rendered, pages, nextId,
                   now, capBudget, nAdds>>

\* crypto.js:198-200  clearKey() in context x
ClearKeyCall(x) ==
    /\ UiIdle
    /\ CountUiOp
    /\ SetKeyState(ClearKey(KeyState, x))
    /\ ui' = [ui EXCEPT !.pc = "done", !.op = "clearKey", !.ctx = x,
                        !.before = CallSnapshot,
                        !.dropped[x] = IF encryptionKey[x] # Null
                                       THEN [key |-> encryptionKey[x],
                                             persisted |-> masterKey]
                                       ELSE ui.dropped[x]]
    /\ UNCHANGED <<setupComplete, isLocked, activeSessionId, sessions, totalNotes,
                   encrypted, keyPromise, proms, callers, cap, rendered, pages, nextId,
                   now, capBudget, nAdds>>

\* storage.js:65-69  clearAll(): chrome.storage.local.clear() removes every
\* stored item, the exported master key included; no context's cached key is
\* touched
ClearAllCall ==
    /\ UiIdle
    /\ CountUiOp
    /\ setupComplete' = FALSE
    /\ isLocked' = FALSE
    /\ activeSessionId' = Undef
    /\ sessions' = <<>>
    /\ totalNotes' = Undef
    /\ masterKey' = Null
    /\ encrypted' = [n \in SecretNames |-> NoBlob]
    /\ ui' = [ui EXCEPT !.pc = "done", !.op = "clearAll", !.before = CallSnapshot,
                        !.wiped = IF masterKey # Null THEN masterKey ELSE ui.wiped]
    /\ UNCHANGED <<keyVars, cap, rendered, pages, nextId, now, capBudget, nAdds>>

\* crypto.js:157-177  encrypt(v) in context x: the key is resolved, the IV
\* drawn, the encrypted object returned
EncryptCall(x, v, iv) ==
    /\ UiIdle
    /\ CountUiOp
    /\ GetOrCreateMasterKey(x)
    /\ ui' = [ui EXCEPT !.pc = "encrypted", !.op = "encrypt", !.ctx = x, !.arg = v,
                        !.before = CallSnapshot,
                        !.blob = EncryptJson(encryptionKey'[x], iv, v)]
    /\ UNCHANGED <<setupComplete, isLocked, activeSessionId, sessions, totalNotes,
                   encrypted, keyPromise, proms, callers, cap, rendered, pages, nextId,
                   now, capBudget, nAdds>>

\* crypto.js:157-177  encrypt(v) in context x, the object it returns added to
\* the objects made in the behaviour
EncryptCallRecorded(x, v, iv) ==
    /\ UiIdle
    /\ CountUiOp
    /\ GetOrCreateMasterKey(x)
    /\ ui' = [ui EXCEPT !.pc = "encrypted", !.op = "encrypt", !.ctx = x, !.arg = v,
                        !.before = CallSnapshot,
                        !.blob = EncryptJson(encryptionKey'[x], iv, v),
                        !.made = Append(ui.made, EncryptJson(encryptionKey'[x], iv, v))]
    /\ UNCHANGED <<setupComplete, isLocked, activeSessionId, sessions, totalNotes,
                   encrypted, keyPromise, proms, callers, cap, rendered, pages, nextId,
                   now, capBudget, nAdds>>

\* crypto.js:180-195  decrypt of the object encrypt returned, in context y
DecryptCall(y) ==
    /\ ui.pc = "encrypted"
    /\ GetOrCreateMasterKey(y)
    /\ LET r == DecryptJson(encryptionKey'[y], ui.blob) IN
       ui' = [ui EXCEPT !.pc = "done", !.op = "decrypt", !.ctx = y,
                        !.result = r.value, !.threw = r.threw]
    /\ UNCHANGED <<setupComplete, isLocked, activeSessionId, sessions, totalNotes,
                   encrypted, keyPromise, proms, callers, cap, rendered, pages, nextId,
                   now, capBudget, uiBudget, nAdds>>

\* crypto.js:180-195  decrypt in context y of an object that was encrypted
\* earlier and reaches decrypt as Damage makes it
DecryptBlobCall(y, kind, blob) ==
    /\ UiIdle
    /\ CountUiOp
    /\ GetOrCreateMasterKey(y)
    /\ LET r == DecryptJson(encryptionKey'[y], Damage(kind, blob)) IN
       ui' = [ui EXCEPT !.pc = "done", !.op = "decryptBlob", !.ctx = y,
                        !.name = kind, !.before = CallSnapshot,
                        !.blob = Damage(kind, blob),
                        !.result = r.value, !.threw = r.threw]
    /\ UNCHANGED <<setupComplete, isLocked, activeSessionId, sessions, totalNotes,
                   encrypted, keyPromise, proms, callers, cap, rendered, pages, nextId,
                   now, capBudget, nAdds>>

\* crypto.js:33-66  hashPassword(password) is called and returns the record
HashPasswordCall(password, salt) ==
    /\ UiIdle
    /\ CountUiOp
    /\ ui' = [ui EXCEPT !.pc = "hashed", !.op = "hashPassword", !.pw = password,
                        !.stored = HashPassword(password, salt)]
    /\ UNCHANGED <<storageVars, keyVars, cap, rendered, pages, nextId, now, capBudget,
                   nAdds>>

\* crypto.js:69-95  verifyPassword(password, record) on the record returned
VerifyPasswordCall(password) ==
    /\ ui.pc = "hashed"
    /\ ui' = [ui EXCEPT !.pc = "done", !.op = "verifyPassword", !.pw2 = password,
                        !.ok = VerifyPasswordHash(password, ui.stored),
                        !.threw = FALSE]
    /\ UNCHANGED <<storageVars, keyVars, cap, rendered, pages, nextId, now, capBudget,
                   uiBudget, nAdds>>

\* ------------------------------------------------------------ specification
\* a fresh installation: chrome.storage.local is empty, no key is cached
Init ==
    /\ setupComplete = FALSE
    /\ isLocked = FALSE
    /\ activeSessionId = Undef
    /\ sessions = <<>>
    /\ totalNotes = Undef
    /\ masterKey = Null
    /\ encrypted = [n \in SecretNames |-> NoBlob]
    /\ encryptionKey = [x \in Ctxs |-> Null]
    /\ keyPromise = [x \in Ctxs |-> Null]
    /\ proms = [x \in Ctxs |-> <<>>]
    /\ callers = [x \in Ctxs |-> <<>>]
    /\ pages = <<>>
    /\ cap = [c \in Caps |-> IdleCap]
    /\ ui = IdleUi
    /\ rendered = {}
    /\ nextId = 1
    /\ nextKey = 1
    /\ now = 1
    /\ capBudget = MaxCaptures
    /\ uiBudget = MaxUiOps
    /\ nAdds = [i \in SessionIds |-> 0]

CapRun(c) ==
    \/ ReadSetup(c) \/ ReadLocked(c) \/ ReadActive(c) \/ GetContext(c)
    \/ GetGroqKey(c) \/ GetNotionCreds(c) \/ CallGroq(c)
    \/ ReadSessions(c) \/ ReadActiveAgain(c)
    \/ AppendPage(c) \/ FetchSchema(c) \/ CreatePage(c)
    \/ UpdRead(c) \/ UpdWrite(c)
    \/ AddRead(c) \/ AddWrite(c) \/ AddTotalRead(c) \/ AddTotalWrite(c)
    \/ CapReturn(c)

\* the operations on the session list and the active-session pointer
SessionOpStart ==
    \/ (\E id \in AnyId : SetActiveSession(id))
    \/ (\E id \in AnyId : SelectSession(id))
    \/ (\E n \in SessionNames : CreateSessionRead(n))
    \/ (\E n \in SessionNames : CreateNewSessionRead(n))
    \/ (\E id \in AnyId : DeleteSessionRead(id))

\* onboarding, lock, unlock, reset and the removal of a stored secret
VaultOpStart ==
    \/ ValidateStep1 \/ ValidateStep2 \/ ValidateStep3
    \/ LockExtension \/ (\E pw \in Passwords : Unlock(pw)) \/ ClearAllData
    \/ (\E n \in SecretNames : RemoveSecret(n))

UiRun ==
    \/ LoadDashboard \/ UiReturn
    \/ CreateSessionWrite \/ CreateSessionSetActive
    \/ CreateNewSessionWrite \/ CreateNewSessionSetActive
    \/ DeleteSessionWrite \/ DeleteSessionReadActive \/ DeleteSessionWriteActive

\* no task is between two of its steps
Quiet == UiIdle /\ \A c \in Caps : cap[c].pc = "idle"

\* the behaviour may start another capture or operation
TasksLeft == (MaxCaptures - capBudget) + (MaxUiOps - uiBudget) < MaxSeqTasks

\* one task at a time: a capture or an operation starts when nothing else is
\* in progress, and runs to its end
NextSeq ==
    \/ Quiet /\ TasksLeft /\ \E t \in Texts : CapStart("c1", t)
    \/ \E c \in Caps : CapRun(c)
    \/ Quiet /\ TasksLeft /\ SessionOpStart
    \/ Quiet /\ TasksLeft /\ VaultOpStart
    \/ UiRun

SpecSeq == Init /\ [][NextSeq]_vars

\* the state after validateStep3 and one createNewSession: the setup is
\* complete, the extension is unlocked, the three secrets are stored under the
\* one master key, one session exists and is active, the dashboard shows it
InitReady ==
    /\ setupComplete = TRUE
    /\ isLocked = FALSE
    /\ activeSessionId = 1
    /\ sessions = <<PopupSession(1, "Research A")>>
    /\ totalNotes = 0
    /\ masterKey = 1
    /\ encrypted = [n \in SecretNames |-> Encrypt(1, 1)]
    /\ encryptionKey = [x \in Ctxs |-> IF x = "popup" THEN 1 ELSE Null]
    /\ keyPromise = [x \in Ctxs |-> Null]
    /\ proms = [x \in Ctxs |-> <<>>]
    /\ callers = [x \in Ctxs |-> <<>>]
    /\ pages = <<>>
    /\ cap = [c \in Caps |-> IdleCap]
    /\ ui = [IdleUi EXCEPT !.view = "dashboard", !.step = 3]
    /\ rendered = {1}
    /\ nextId = 2
    /\ nextKey = 2
    /\ now = 1
    /\ capBudget = MaxCaptures
    /\ uiBudget = MaxRaceOps
    /\ nAdds = [i \in SessionIds |-> 0]

\* two captures and setActiveSession interleave at every await
Next ==
    \/ \E c \in Caps : CapStart(c, TextSix)
    \/ \E c \in Caps : CapRun(c)
    \/ \E id \in AnyId : SetActiveSession(id)
    \/ UiReturn

Spec == InitReady /\ [][Next]_vars

\* an installation in any state of its setup, lock, active session and stored
\* secrets; the session exists
InitLive ==
    /\ setupComplete \in BOOLEAN
    /\ isLocked \in BOOLEAN
    /\ activeSessionId \in {Undef, 1}
    /\ sessions = <<PopupSession(1, "Research A")>>
    /\ totalNotes = 0
    /\ masterKey = 1
    /\ encrypted \in {[n \in SecretNames |-> Encrypt(1, 1)],
                      [n \in SecretNames |-> IF n = "groqApiKey" THEN Encrypt(1, 1) ELSE NoBlob],
                      [n \in SecretNames |-> NoBlob]}
    /\ encryptionKey = [x \in Ctxs |-> IF x = "popup" THEN 1 ELSE Null]
    /\ keyPromise = [x \in Ctxs |-> Null]
    /\ proms = [x \in Ctxs |-> <<>>]
    /\ callers = [x \in Ctxs |-> <<>>]
    /\ pages = <<>>
    /\ cap = [c \in Caps |-> IdleCap]
    /\ ui = [IdleUi EXCEPT !.view = "dashboard", !.step = 3]
    /\ rendered = {1}
    /\ nextId = 2
    /\ nextKey = 2
    /\ now = 1
    /\ capBudget = MaxCaptures
    /\ uiBudget = 0
    /\ nAdds = [i \in SessionIds |-> 0]

\* captures, one after the other
NextLive ==
    \/ Quiet /\ CapStart("c1", TextLead)
    \/ \E c \in Caps : CapRun(c)

\* every storage and network call of a capture returns or fails: a capture
\* that can take its next step takes it
SpecLive == InitLive /\ [][NextLive]_vars /\ \A c \in Caps : WF_vars(CapRun(c))

\* the structuring step on its own, for every output of the service
NextGroq ==
    \/ \E c \in Caps, resp \in GroqOutputs, t \in {TextSix, TextLong} :
          StructureCall(c, resp, t)
    \/ \E c \in Caps : CapReturn(c)

SpecGroq == InitReady /\ [][NextGroq]_vars

\* getOrCreateMasterKey called in both contexts of a fresh installation, the
\* calls interleaved at every await
NextKey ==
    \E x \in Ctxs :
        \/ KeyCall(x)
        \/ \E p \in 1..Len(proms[x]) :
              \/ KeyGet(x, p) \/ KeyImport(x, p) \/ KeyGenerate(x, p)
              \/ KeyExport(x, p) \/ KeySet(x, p) \/ KeyReturn(x, p)
        \/ \E i \in 1..Len(callers[x]) : KeyResume(x, i)

SpecKey == Init /\ [][NextKey]_vars

\* an installation with no stored key, an importable one, or one that
\* importKey rejects; no context has a key in memory
InitRetry ==
    /\ setupComplete = TRUE
    /\ isLocked = FALSE
    /\ activeSessionId = 1
    /\ sessions = <<PopupSession(1, "Research A")>>
    /\ totalNotes = 0
    /\ masterKey \in {Null, 1, CorruptKey}
    /\ encrypted = [n \in SecretNames |-> IF masterKey = Null THEN NoBlob ELSE Encrypt(1, 1)]
    /\ encryptionKey = [x \in Ctxs |-> Null]
    /\ keyPromise = [x \in Ctxs |-> Null]
    /\ proms = [x \in Ctxs |-> <<>>]
    /\ callers = [x \in Ctxs |-> <<>>]
    /\ pages = <<>>
    /\ cap = [c \in Caps |-> IdleCap]
    /\ ui = [IdleUi EXCEPT !.view = "dashboard", !.step = 3]
    /\ rendered = {1}
    /\ nextId = 2
    /\ nextKey = 2
    /\ now = 1
    /\ capBudget = 0
    /\ uiBudget = MaxRaceOps
    /\ nAdds = [i \in SessionIds |-> 0]

\* getOrCreateMasterKey called in the background worker, each step of the key
\* creation completing or rejecting; clearAll() may remove the stored key
NextRetry ==
    \/ KeyCall("bg")
    \/ \E p \in 1..Len(proms["bg"]) :
          \/ KeyGet("bg", p)
          \/ proms["bg"][p].stored # CorruptKey /\ KeyImport("bg", p)
          \/ KeyImportFails("bg", p)
          \/ KeyGenerate("bg", p) \/ KeyGenerateFails("bg", p)
          \/ KeyExport("bg", p) \/ KeyExportFails("bg", p)
          \/ KeySet("bg", p) \/ KeyReturn("bg", p)
    \/ \E i \in 1..Len(callers["bg"]) : KeyResume("bg", i) \/ KeyThrow("bg", i)
    \/ ClearAllCall \/ UiReturn

SpecRetry == InitRetry /\ [][NextRetry]_vars

\* getOrCreateMasterKey called in the popup of a fresh installation, with
\* clearKey() calls falling between any two steps
NextLock ==
    \/ KeyCall("popup")
    \/ \E p \in 1..Len(proms["popup"]) :
          \/ KeyGet("popup", p) \/ KeyImport("popup", p) \/ KeyGenerate("popup", p)
          \/ KeyExport("popup", p) \/ KeySet("popup", p) \/ KeyReturn("popup", p)
    \/ \E i \in 1..Len(callers["popup"]) : KeyResume("popup", i)
    \/ KeyClear("popup")

SpecLock == Init /\ [][NextLock]_vars

\* the popup encrypts one value after another, each call drawing its IV from
\* crypto.getRandomValues
InitIv ==
    /\ setupComplete = FALSE
    /\ isLocked = FALSE
    /\ activeSessionId = Undef
    /\ sessions = <<>>
    /\ totalNotes = Undef
    /\ masterKey \in {Null, 1}
    /\ encrypted = [n \in SecretNames |-> NoBlob]
    /\ encryptionKey = [x \in Ctxs |-> Null]
    /\ keyPromise = [x \in Ctxs |-> Null]
    /\ proms = [x \in Ctxs |-> <<>>]
    /\ callers = [x \in Ctxs |-> <<>>]
    /\ pages = <<>>
    /\ cap = [c \in Caps |-> IdleCap]
    /\ ui = IdleUi
    /\ rendered = {}
    /\ nextId = 1
    /\ nextKey = IF masterKey = Null THEN 1 ELSE 2
    /\ now = 1
    /\ capBudget = 0
    /\ uiBudget = MaxEncrypts
    /\ nAdds = [i \in SessionIds |-> 0]

NextIv ==
    \/ \E v \in JAtoms : EncryptCallRecorded("popup", v, RandomIv(Len(ui.made) + 1))
    \/ \E y \in Ctxs : DecryptCall(y)
    \/ UiReturn

SpecIv == InitIv /\ [][NextIv]_vars

\* objects encrypted earlier under the key 1 reach decrypt, intact or damaged,
\* in an installation where that key is persisted or was removed, and is
\* cached in a context or not
InitOpen ==
    /\ setupComplete = FALSE
    /\ isLocked = FALSE
    /\ activeSessionId = Undef
    /\ sessions = <<>>
    /\ totalNotes = Undef
    /\ masterKey \in {Null, 1}
    /\ encrypted = [n \in SecretNames |-> NoBlob]
    /\ encryptionKey \in [Ctxs -> {Null, 1}]
    /\ keyPromise = [x \in Ctxs |-> Null]
    /\ proms = [x \in Ctxs |-> <<>>]
    /\ callers = [x \in Ctxs |-> <<>>]
    /\ pages = <<>>
    /\ cap = [c \in Caps |-> IdleCap]
    /\ ui = IdleUi
    /\ rendered = {}
    /\ nextId = 1
    /\ nextKey = 2
    /\ now = 1
    /\ capBudget = 0
    /\ uiBudget = MaxDecrypts
    /\ nAdds = [i \in SessionIds |-> 0]

SealedEarlier == {EncryptJson(1, iv, v) : iv \in Ivs, v \in {JNum(1), JStr(<<"a">>)}}

NextOpen ==
    \/ \E y \in Ctxs, kind \in DamageKinds, blob \in SealedEarlier :
          DecryptBlobCall(y, kind, blob)
    \/ UiReturn

SpecOpen == InitOpen /\ [][NextOpen]_vars

\* a password is hashed and a password is verified against the record
InitPw ==
    /\ setupComplete = FALSE
    /\ isLocked = FALSE
    /\ activeSessionId = Undef
    /\ sessions = <<>>
    /\ totalNotes = Undef
    /\ masterKey = Null
    /\ encrypted = [n \in SecretNames |-> NoBlob]
    /\ encryptionKey = [x \in Ctxs |-> Null]
    /\ keyPromise = [x \in Ctxs |-> Null]
    /\ proms = [x \in Ctxs |-> <<>>]
    /\ callers = [x \in Ctxs |-> <<>>]
    /\ pages = <<>>
    /\ cap = [c \in Caps |-> IdleCap]
    /\ ui = IdleUi
    /\ rendered = {}
    /\ nextId = 1
    /\ nextKey = 1
    /\ now = 1
    /\ capBudget = 0
    /\ uiBudget = MaxRoundTrips
    /\ nAdds = [i \in SessionIds |-> 0]

NextPw ==
    \/ \E pw \in Passwords16, salt \in Salts : HashPasswordCall(pw, salt)
    \/ \E pw \in Passwords16 : VerifyPasswordCall(pw)
    \/ UiReturn

SpecPw == InitPw /\ [][NextPw]_vars

\* a set-up installation with two sessions, the older made by the popup's
\* createNewSession and the newer by createSession; either is active, or none
InitSess ==
    /\ setupComplete = TRUE
    /\ isLocked = FALSE
    /\ activeSessionId \in {Null, 1, 2}
    /\ sessions = <<NewSession(2, "Research A"), PopupSession(1, "Research A")>>
    /\ totalNotes = 0
    /\ masterKey = 1
    /\ encrypted = [n \in SecretNames |-> Encrypt(1, 1)]
    /\ encryptionKey = [x \in Ctxs |-> IF x = "popup" THEN 1 ELSE Null]
    /\ keyPromise = [x \in Ctxs |-> Null]
    /\ proms = [x \in Ctxs |-> <<>>]
    /\ callers = [x \in Ctxs |-> <<>>]
    /\ pages = <<>>
    /\ cap = [c \in Caps |-> IdleCap]
    /\ ui = [IdleUi EXCEPT !.view = "dashboard", !.step = 3]
    /\ rendered = {1, 2}
    /\ nextId = 3
    /\ nextKey = 2
    /\ now = 1
    /\ capBudget = 0
    /\ uiBudget = MaxSessOps
    /\ nAdds = [i \in SessionIds |-> 0]

\* SessionManager calls, one at a time
NextSess ==
    \/ \E id \in AnyId : SetActiveSession(id)
    \/ \E n \in SessionNames : CreateSessionRead(n)
    \/ CreateSessionWrite \/ CreateSessionSetActive
    \/ \E id \in AnyId : DeleteSessionRead(id)
    \/ DeleteSessionWrite \/ DeleteSessionReadActive \/ DeleteSessionWriteActive
    \/ UiReturn

SpecSess == InitSess /\ [][NextSess]_vars

\* as InitSess, with addContentToSession calls to come
InitNotes ==
    /\ setupComplete = TRUE
    /\ isLocked = FALSE
    /\ activeSessionId \in {Null, 1, 2}
    /\ sessions = <<NewSession(2, "Research A"), PopupSession(1, "Research A")>>
    /\ totalNotes \in {Undef, 0}
    /\ masterKey = 1
    /\ encrypted = [n \in SecretNames |-> Encrypt(1, 1)]
    /\ encryptionKey = [x \in Ctxs |-> IF x = "popup" THEN 1 ELSE Null]
    /\ keyPromise = [x \in Ctxs |-> Null]
    /\ proms = [x \in Ctxs |-> <<>>]
    /\ callers = [x \in Ctxs |-> <<>>]
    /\ pages = <<>>
    /\ cap = [c \in Caps |-> IdleCap]
    /\ ui = [IdleUi EXCEPT !.view = "dashboard", !.step = 3]
    /\ rendered = {1, 2}
    /\ nextId = 3
    /\ nextKey = 2
    /\ now = 1
    /\ capBudget = MaxSeqTasks
    /\ uiBudget = MaxUiOps
    /\ nAdds = [i \in SessionIds |-> 0]

\* sessions are created and deleted and content is added, one call at a time
NextNotes ==
    \/ Quiet /\ \E id \in AnyId : AddCall("c1", id, AiTitle, TextLead)
    \/ AddWrite("c1") \/ AddTotalRead("c1") \/ AddTotalWrite("c1") \/ CapReturn("c1")
    \/ Quiet /\ \E n \in SessionNames : CreateSessionRead(n)
    \/ CreateSessionWrite \/ CreateSessionSetActive
    \/ Quiet /\ \E id \in AnyId : DeleteSessionRead(id)
    \/ DeleteSessionWrite \/ DeleteSessionReadActive \/ DeleteSessionWriteActive
    \/ UiReturn

SpecNotes == InitNotes /\ [][NextNotes]_vars

\* a set-up installation with one session, createSession's or
\* createNewSession's, no content added yet
InitStore ==
    /\ setupComplete = TRUE
    /\ isLocked = FALSE
    /\ activeSessionId = 1
    /\ sessions \in {<<NewSession(1, "Research A")>>, <<PopupSession(1, "Research A")>>}
    /\ totalNotes = 0
    /\ masterKey = 1
    /\ encrypted = [n \in SecretNames |-> Encrypt(1, 1)]
    /\ encryptionKey = [x \in Ctxs |-> IF x = "popup" THEN 1 ELSE Null]
    /\ keyPromise = [x \in Ctxs |-> Null]
    /\ proms = [x \in Ctxs |-> <<>>]
    /\ callers = [x \in Ctxs |-> <<>>]
    /\ pages = <<>>
    /\ cap = [c \in Caps |-> IdleCap]
    /\ ui = [IdleUi EXCEPT !.view = "dashboard", !.step = 3]
    /\ rendered = {1}
    /\ nextId = 2
    /\ nextKey = 2
    /\ now = 1
    /\ capBudget = MaxAdds
    /\ uiBudget = 0
    /\ nAdds = [i \in SessionIds |-> 0]

\* as InitStore, with as many calls to come as MaxCaptures
InitPair ==
    /\ setupComplete = TRUE
    /\ isLocked = FALSE
    /\ activeSessionId = 1
    /\ sessions \in {<<NewSession(1, "Research A")>>, <<PopupSession(1, "Research A")>>}
    /\ totalNotes = 0
    /\ masterKey = 1
    /\ encrypted = [n \in SecretNames |-> Encrypt(1, 1)]
    /\ encryptionKey = [x \in Ctxs |-> IF x = "popup" THEN 1 ELSE Null]
    /\ keyPromise = [x \in Ctxs |-> Null]
    /\ proms = [x \in Ctxs |-> <<>>]
    /\ callers = [x \in Ctxs |-> <<>>]
    /\ pages = <<>>
    /\ cap = [c \in Caps |-> IdleCap]
    /\ ui = [IdleUi EXCEPT !.view = "dashboard", !.step = 3]
    /\ rendered = {1}
    /\ nextId = 2
    /\ nextKey = 2
    /\ now = 1
    /\ capBudget = MaxCaptures
    /\ uiBudget = 0
    /\ nAdds = [i \in SessionIds |-> 0]

\* addContentToSession called again and again, one call at a time
NextStore ==
    \/ \E id \in AnyId : AddCall("c1", id, AiTitle, TextLong)
    \/ AddWrite("c1") \/ AddTotalRead("c1") \/ AddTotalWrite("c1")
    \/ CapReturn("c1")

SpecStore == InitStore /\ [][NextStore]_vars

\* addContentToSession called by two tasks on the one session, the calls
\* interleaved at every await
NextPair ==
    \/ \E c \in Caps, t \in {TextLead, TextSix} : AddCall(c, 1, AiTitle, t)
    \/ \E c \in Caps : AddWrite(c) \/ AddTotalRead(c) \/ AddTotalWrite(c) \/ CapReturn(c)

SpecPair == InitPair /\ [][NextPair]_vars

\* a set-up installation after a restart of the background worker: the stored
\* master key is intact or no longer importable, the popup has the key cached
\* or not
InitKeyFail ==
    /\ setupComplete = TRUE
    /\ isLocked = FALSE
    /\ activeSessionId = 1
    /\ sessions = <<PopupSession(1, "Research A")>>
    /\ totalNotes = 0
    /\ masterKey \in {1, CorruptKey}
    /\ encrypted \in {[n \in SecretNames |-> Encrypt(1, 1)],
                      [n \in SecretNames |-> IF n = "groqApiKey" THEN NoBlob ELSE Encrypt(1, 1)]}
    /\ encryptionKey \in {[x \in Ctxs |-> Null],
                          [x \in Ctxs |-> IF x = "popup" THEN 1 ELSE Null]}
    /\ keyPromise = [x \in Ctxs |-> Null]
    /\ proms = [x \in Ctxs |-> <<>>]
    /\ callers = [x \in Ctxs |-> <<>>]
    /\ pages = <<>>
    /\ cap = [c \in Caps |-> IdleCap]
    /\ ui = [IdleUi EXCEPT !.view = "dashboard", !.step = 3]
    /\ rendered = {1}
    /\ nextId = 2
    /\ nextKey = 2
    /\ now = 1
    /\ capBudget = 1
    /\ uiBudget = MaxUiOps
    /\ nAdds = [i \in SessionIds |-> 0]

\* the secret store is read and written and a capture runs, one task at a
\* time, the key import failing where the stored key is not importable
NextKeyFail ==
    \/ Quiet /\ CapStart("c1", TextLead)
    \/ \E c \in Caps :
          /\ cap[c].pc \in {"getGroqKey", "getNotionCreds"} =>
                ~(ImportFails(KeyState, "bg") /\ encrypted[SecretAt(cap[c].pc)] # NoBlob)
          /\ CapRun(c)
    \/ \E c \in Caps : CapSecretKeyFails(c)
    \/ Quiet /\ \E x \in Ctxs, n \in VaultNames :
          \/ ~(ImportFails(KeyState, x) /\ encrypted[n] # NoBlob) /\ GetEncryptedCall(x, n)
          \/ GetEncryptedKeyFails(x, n)
          \/ \E v \in SecretValues :
                \/ ~ImportFails(KeyState, x) /\ SetEncryptedCall(x, n, v)
                \/ SetEncryptedKeyFails(x, n, v)
    \/ UiReturn

SpecKeyFail == InitKeyFail /\ [][NextKeyFail]_vars

\* a set-up, unlocked installation with its three secrets stored under the
\* master key; the background worker has the key cached or not
InitPass ==
    /\ setupComplete = TRUE
    /\ isLocked = FALSE
    /\ activeSessionId = 1
    /\ sessions = <<PopupSession(1, "Research A")>>
    /\ totalNotes = 0
    /\ masterKey = 1
    /\ encrypted = [n \in SecretNames |->
                      Encrypt(1, IF n = "userData" THEN SetupPassword ELSE GroqVal)]
    /\ encryptionKey \in {[x \in Ctxs |-> 1], [x \in Ctxs |-> IF x = "popup" THEN 1 ELSE Null]}
    /\ keyPromise = [x \in Ctxs |-> Null]
    /\ proms = [x \in Ctxs |-> <<>>]
    /\ callers = [x \in Ctxs |-> <<>>]
    /\ pages = <<>>
    /\ cap = [c \in Caps |-> IdleCap]
    /\ ui = [IdleUi EXCEPT !.view = "dashboard", !.step = 3]
    /\ rendered = {1}
    /\ nextId = 2
    /\ nextKey = 2
    /\ now = 1
    /\ capBudget = 0
    /\ uiBudget = MaxVaultOps
    /\ nAdds = [i \in SessionIds |-> 0]

\* the popup locks, unlocks, changes the password, resets and sets up again;
\* the user data record may be removed; either context reads a secret
NextPass ==
    \/ LockExtension
    \/ \E pw \in Passwords : Unlock(pw)
    \/ \E current, new, confirm \in Passwords, long \in BOOLEAN :
          ChangePassword(current, new, confirm, long)
    \/ ClearAllData \/ ValidateStep1 \/ ValidateStep2 \/ ValidateStep3
    \/ RemoveSecret("userData")
    \/ \E x \in Ctxs, n \in SecretNames : GetEncryptedCall(x, n)
    \/ UiReturn

SpecPass == InitPass /\ [][NextPass]_vars

\* captures raced against one popup operation
RaceCaptures == 1

\* popup.js:449-455, background.js:98-108  a session the popup created, after
\* one capture into it: the page id is stored and one entry is recorded
CapturedSession(id, name, pageId) ==
    UpdateSessionPage(AddContent(PopupSession(id, name), AiTitle, TextLead, 0), pageId)

\* a set-up, unlocked installation with two sessions: session 2, the newer
\* one, has been captured into once and has remote page 1, session 1 has no
\* page yet; either of them is the active one
InitRace ==
    /\ setupComplete = TRUE
    /\ isLocked = FALSE
    /\ activeSessionId \in {1, 2}
    /\ sessions = <<CapturedSession(2, "Research A", 1), PopupSession(1, "Research A")>>
    /\ totalNotes = 1
    /\ masterKey = 1
    /\ encrypted = [n \in SecretNames |->
                      Encrypt(1, IF n = "userData" THEN SetupPassword ELSE GroqVal)]
    /\ encryptionKey = [x \in Ctxs |-> IF x = "popup" THEN 1 ELSE Null]
    /\ keyPromise = [x \in Ctxs |-> Null]
    /\ proms = [x \in Ctxs |-> <<>>]
    /\ callers = [x \in Ctxs |-> <<>>]
    /\ pages = <<[name |-> "Research A", sid |-> 2, sections |-> 1]>>
    /\ cap = [c \in Caps |-> IdleCap]
    /\ ui = [IdleUi EXCEPT !.view = "dashboard", !.step = 3]
    /\ rendered = {1, 2}
    /\ nextId = 3
    /\ nextKey = 2
    /\ now = 1
    /\ capBudget = RaceCaptures
    /\ uiBudget = MaxRaceOps
    /\ nAdds = [i \in SessionIds |-> 0]

\* a capture in the background worker and an operation of the popup (select,
\* create or delete a session, lock) interleave at every await
NextRace ==
    \/ CapStart("c1", TextLead)
    \/ CapRun("c1")
    \/ \E id \in SessionIds : SelectSession(id)
    \/ \E n \in SessionNames : CreateSessionRead(n)
    \/ \E n \in SessionNames : CreateNewSessionRead(n)
    \/ \E id \in AnyId : DeleteSessionRead(id)
    \/ LockExtension
    \/ UiRun

SpecRace == InitRace /\ [][NextRace]_vars

\* storage.js:136-166  the session after n addContentToSession calls made one
\* after the other on session base, the k-th at time k
RECURSIVE SessionAfter(_, _)
SessionAfter(base, n) ==
    IF n = 0 THEN base
    ELSE AddContent(SessionAfter(base, n - 1), AiTitle, TextLead, n)

\* the numbers of earlier calls a behaviour starts from: none, and as many as
\* entries are kept
EarlierAdds == {0, MaxContents}

\* a set-up, unlocked installation with one session: one just created by
\* createSession or by the popup, or one created by the popup and filled
InitRoll ==
    /\ setupComplete = TRUE
    /\ isLocked = FALSE
    /\ activeSessionId = 1
    /\ \E n \in EarlierAdds :
         \E base \in {PopupSession(1, "Research A")}
                      \cup {NewSession(1, "Research A") : k \in {n} \cap {0}} :
            /\ sessions = <<SessionAfter(base, n)>>
            /\ totalNotes = n
            /\ now = n + 1
            /\ nAdds = [i \in SessionIds |-> IF i = 1 THEN n ELSE 0]
    /\ masterKey = 1
    /\ encrypted = [n \in SecretNames |-> Encrypt(1, 1)]
    /\ encryptionKey = [x \in Ctxs |-> IF x = "popup" THEN 1 ELSE Null]
    /\ keyPromise = [x \in Ctxs |-> Null]
    /\ proms = [x \in Ctxs |-> <<>>]
    /\ callers = [x \in Ctxs |-> <<>>]
    /\ pages = <<>>
    /\ cap = [c \in Caps |-> IdleCap]
    /\ ui = [IdleUi EXCEPT !.view = "dashboard", !.step = 3]
    /\ rendered = {1}
    /\ nextId = 2
    /\ nextKey = 2
    /\ capBudget = MaxCaptures
    /\ uiBudget = MaxUiOps

\* addContentToSession called by two tasks on the session, interleaved at
\* every await with each other and with the creation of a session in the
\* popup; a behaviour starts at most MaxSeqTasks calls and creations
NextRoll ==
    \/ TasksLeft /\ \E c \in Caps : AddCall(c, 1, AiTitle, TextLead)
    \/ \E c \in Caps : AddWrite(c) \/ AddTotalRead(c) \/ AddTotalWrite(c) \/ CapReturn(c)
    \/ TasksLeft /\ \E n \in SessionNames : CreateSessionRead(n)
    \/ TasksLeft /\ \E n \in SessionNames : CreateNewSessionRead(n)
    \/ CreateSessionWrite \/ CreateSessionSetActive
    \/ CreateNewSessionWrite \/ CreateNewSessionSetActive
    \/ LoadDashboard \/ UiReturn

SpecRoll == InitRoll /\ [][NextRoll]_vars

\* a fresh installation whose two contexts call the secret store and the
\* Encryption Engine, one call at a time
InitVault ==
    /\ setupComplete = FALSE
    /\ isLocked = FALSE
    /\ activeSessionId = Undef
    /\ sessions = <<>>
    /\ totalNotes = Undef
    /\ masterKey = Null
    /\ encrypted = [n \in SecretNames |-> NoBlob]
    /\ encryptionKey = [x \in Ctxs |-> Null]
    /\ keyPromise = [x \in Ctxs |-> Null]
    /\ proms = [x \in Ctxs |-> <<>>]
    /\ callers = [x \in Ctxs |-> <<>>]
    /\ pages = <<>>
    /\ cap = [c \in Caps |-> IdleCap]
    /\ ui = IdleUi
    /\ rendered = {}
    /\ nextId = 1
    /\ nextKey = 1
    /\ now = 1
    /\ capBudget = 0
    /\ uiBudget = MaxVaultOps
    /\ nAdds = [i \in SessionIds |-> 0]

NextVault ==
    \/ \E x \in Ctxs, n \in VaultNames, v \in SecretValues : SetEncryptedCall(x, n, v)
    \/ \E x \in Ctxs, n \in VaultNames : GetEncryptedCall(x, n)
    \/ \E x \in Ctxs : GetOrCreateMasterKeyCall(x)
    \/ \E x \in Ctxs : ClearKeyCall(x)
    \/ ClearAllCall
    \/ UiReturn

SpecVault == InitVault /\ [][NextVault]_vars

\* an installation whose master key exists: each context has it cached or has
\* not used it yet; the popup encrypts a value (popup.js:237-274) and the
\* result is decrypted in the popup or in the worker
InitCodec ==
    /\ setupComplete = FALSE
    /\ isLocked = FALSE
    /\ activeSessionId = Undef
    /\ sessions = <<>>
    /\ totalNotes = Undef
    /\ masterKey = 1
    /\ encrypted = [n \in SecretNames |-> NoBlob]
    /\ encryptionKey \in [Ctxs -> {Null, 1}]
    /\ keyPromise = [x \in Ctxs |-> Null]
    /\ proms = [x \in Ctxs |-> <<>>]
    /\ callers = [x \in Ctxs |-> <<>>]
    /\ pages = <<>>
    /\ cap = [c \in Caps |-> IdleCap]
    /\ ui = IdleUi
    /\ rendered = {}
    /\ nextId = 1
    /\ nextKey = 2
    /\ now = 1
    /\ capBudget = 0
    /\ uiBudget = MaxRoundTrips
    /\ nAdds = [i \in SessionIds |-> 0]

NextCodec ==
    \/ \E v \in JsonValues, iv \in Ivs : EncryptCall("popup", v, iv)
    \/ \E y \in Ctxs : DecryptCall(y)
    \/ UiReturn

SpecCodec == InitCodec /\ [][NextCodec]_vars

\* ------------------------------------------------------------------ claims
\* C1: when getOrCreateMasterKey is called two or more times in one execution
\* context of an installation with no key cached or persisted, the calls
\* interleaved at every await, the context starts one key-creation path, one
\* key is generated and persisted, and every call resolves to that key.
C1_SingleFlight ==
    \A x \in Ctxs :
        LET done == {i \in 1..Len(callers[x]) : callers[x][i].pc = "done"}
            generated == {p \in 1..Len(proms[x]) : proms[x][p].key # Null}
        IN /\ Len(proms[x]) <= 1
           /\ Cardinality(generated) <= 1
           /\ \A i \in done : callers[x][i].result = encryptionKey[x]
                                /\ callers[x][i].result # Null
           /\ \A p \in 1..Len(proms[x]) :
                 proms[x][p].pc = "resolved" =>
                    /\ proms[x][p].value = encryptionKey[x]
                    /\ proms[x][p].stored = Null =>
                          proms[x][p].wrote /\ proms[x][p].key = proms[x][p].value
           /\ ( /\ \A y \in Ctxs \ {x} : callers[y] = <<>>
                /\ Len(callers[x]) >= 2
                /\ done = 1..Len(callers[x]) )
              => /\ nextKey = 2
                 /\ masterKey = 1
                 /\ \A i \in done : callers[x][i].result = masterKey

\* NCallers overlapping calls in the background context have all resolved,
\* one through the promise it created and another through the shared promise
C1_Witness ==
    /\ callers["popup"] = <<>>
    /\ Len(callers["bg"]) = NCallers
    /\ \A i \in 1..NCallers : callers["bg"][i].pc = "done"
    /\ \E i, j \in 1..NCallers :
          callers["bg"][i].via = "own" /\ callers["bg"][j].via = "shared"
    /\ proms["bg"][1].stored = Null

\* C2: over every sequence of addContentToSession calls, a session's contents
\* never holds more than 30 entries, and between calls its contentCount (0
\* when missing) equals the number of calls made on it.
C2_ContentsBounded ==
    \A i \in 1..Len(sessions) :
        /\ Len(sessions[i].contents) <= MaxContents
        /\ cap["c1"].pc = "idle" =>
              OrZero(sessions[i].contentCount) = nAdds[sessions[i].id]

\* more than 30 calls were made on a session: its oldest entries are gone
C2_Witness ==
    /\ cap["c1"].pc = "idle"
    /\ \E i \in 1..Len(sessions) :
          /\ nAdds[sessions[i].id] > MaxContents
          /\ sessions[i].contentCount = nAdds[sessions[i].id]
          /\ Len(sessions[i].contents) = MaxContents
          /\ sessions[i].contents[1].timestamp > 1
          /\ Len(sessions[i].contents[MaxContents].summary) = SummaryLimit

\* the capture pcs before the structuring call
BeforeGroq == {"readSetup", "readLocked", "readActive", "getContext", "getGroqKey",
               "getNotionCreds"}

\* the capture pcs after the storage call has returned
AfterStoring == {"updRead", "updWrite", "addRead", "addWrite", "addTotalRead",
                 "addTotalWrite", "done"}

\* the page writes (create or append requests) a capture has sent
PageWrites(r) == SelectSeq(r.notionCalls, LAMBDA call : call.op \in {"create", "append"})

\* a stored session has a page id
StoredHasPage(session) == session.notionPageId \notin {Undef, Null}

\* C3: whenever no Session Store operation is in progress, activeSessionId is
\* absent, null or the id of a session in the stored list.
C3_ActivePointerValid ==
    UiIdle => activeSessionId \in ({Undef, Null} \cup IdsOf(sessions))

\* C4: across any interleaving of captures on one session, the create-page
\* operation succeeds at most once for the session, and every append of a
\* capture on the session goes to the page created for it.
C4_OnePagePerSession ==
    /\ \A id \in SessionIds :
          Cardinality({p \in 1..Len(pages) : pages[p].sid = id}) <= 1
    /\ \A c \in Caps : \A k \in 1..Len(cap[c].notionCalls) :
          LET call == cap[c].notionCalls[k] IN
          (call.op = "append" /\ NotionOk(call.outcome)) =>
              pages[call.page].sid = cap[c].activeSessionId

\* C5: in a capture that reaches Storing, append is used only when the active
\* session has a page id and create only when it has none; after a successful
\* create the page id is stored on the session; a finished first capture on a
\* new session leaves notionPageId set and contentCount 1, a finished second
\* capture has appended to that page and leaves contentCount 2 and two contents.
C5_CreateOrAppend ==
    \A c \in Caps :
        LET r == cap[c]
            id == r.activeSessionId
            i == FindIndex(sessions, id)
            j == FindIndex(r.snap.sessions, id)
        IN /\ r.pc = "append" => j # 0 /\ StoredHasPage(r.snap.sessions[j])
           /\ r.pc \in {"schema", "create"} => j = 0 \/ ~StoredHasPage(r.snap.sessions[j])
           /\ (r.pc \in (AfterStoring \ {"updRead", "updWrite"}) /\ r.notionResponse # Null) =>
                 i # 0 /\ sessions[i].notionPageId = r.notionResponse
           /\ (r.pc = "done" /\ j # 0 /\ OrZero(r.snap.sessions[j].contentCount) = 0) =>
                 /\ i # 0
                 /\ StoredHasPage(sessions[i])
                 /\ sessions[i].contentCount = 1
           /\ (r.pc = "done" /\ j # 0 /\ OrZero(r.snap.sessions[j].contentCount) = 1) =>
                 /\ i # 0
                 /\ Len(r.notionCalls) = 1
                 /\ r.notionCalls[1].op = "append"
                 /\ r.notionCalls[1].page = r.snap.sessions[j].notionPageId
                 /\ sessions[i].contentCount = 2
                 /\ Len(sessions[i].contents) = 2

\* C6: a capture that starts set up and unlocked while activeSessionId is
\* absent, null or names no session of the list ends Failed with the
\* no-active-session message and makes no structuring or storage call.
C6_NoActiveSessionFails ==
    \A c \in Caps :
        LET r == cap[c] IN
        ( /\ r.pc \notin {"idle", "readSetup", "readLocked", "readActive"}
          /\ r.snap.setupComplete /\ ~r.snap.isLocked
          /\ r.snap.activeSessionId \notin IdsOf(r.snap.sessions) )
        => /\ r.pc = "failed"
           /\ r.notif = Notification(MsgNoSession, "error")
           /\ r.groqCalls = <<>>
           /\ r.notionCalls = <<>>

\* the key the background worker decrypts with
BgKey == IF encryptionKey["bg"] # Null THEN encryptionKey["bg"] ELSE masterKey

\* the background worker can read the stored secret
Available(name) == encrypted[name] # NoBlob /\ encrypted[name].key = BgKey

\* the message of the first precondition of handleMapping that the stored
\* state fails, "" if it fails none
FirstFailing ==
    IF ~setupComplete THEN MsgSetup
    ELSE IF isLocked THEN MsgLocked
    ELSE IF activeSessionId \in {Undef, Null} THEN MsgNoSession
    ELSE IF ~Available("groqApiKey") THEN MsgNoGroq
    ELSE IF ~Available("notionCredentials") THEN MsgNoNotion
    ELSE ""

\* C7: a capture attempted while the setup is not complete, the extension is
\* locked, or the Groq key or the Notion credentials cannot be read never gets
\* past the checks: it makes no network call, it leaves sessions,
\* activeSessionId and totalNotes as they were, and when it ends it is Failed
\* with the message of the first precondition that fails.
C7_PreconditionFails ==
    \A c \in Caps :
        LET r == cap[c] IN
        (r.pc # "idle" /\ FirstFailing # "") =>
            /\ r.pc \in BeforeGroq \cup {"failed"}
            /\ r.pc = "failed" => r.notif = Notification(FirstFailing, "error")
            /\ r.groqCalls = <<>> /\ r.notionCalls = <<>> /\ r.writes = {}
            /\ sessions = r.snap.sessions
            /\ activeSessionId = r.snap.activeSessionId
            /\ totalNotes = r.snap.totalNotes

\* a capture has failed because the Notion credentials are missing while all
\* earlier preconditions hold
C7_Witness ==
    /\ cap["c1"].pc = "failed"
    /\ cap["c1"].notif = Notification(MsgNoNotion, "error")
    /\ Available("groqApiKey")
    /\ encrypted["notionCredentials"] = NoBlob
    /\ activeSessionId \in IdsOf(sessions)

\* the white-space separated words of a text from position i on
RECURSIVE WordsFrom(_, _)
WordsFrom(s, i) ==
    LET a == SkipSpace(s, i) IN
    IF a > Len(s) THEN <<>>
    ELSE <<SubSeq(s, a, NextSpace(s, a) - 1)>> \o WordsFrom(s, NextSpace(s, a))

\* the first five words of a text, joined by single spaces, then '...'
FiveWordsTitle(s) == JoinSp(Slice0(WordsFrom(s, 1), TitleWords)) \o Ellipsis

\* C8 as stated: a capture whose structuring call failed (network error or
\* non-2xx) sends exactly one page write, its title the first five words of
\* the selection followed by '...' and its connections empty, and ends Done.
C8_FallbackOneWrite ==
    \A c \in Caps :
        LET r == cap[c] IN
        (r.pc \in {"done", "failed"} /\ r.groqCalls = <<"failed">>) =>
            /\ r.pc = "done"
            /\ Len(PageWrites(r)) = 1
            /\ PageWrites(r)[1].title = FiveWordsTitle(r.text)
            /\ PageWrites(r)[1].connections = <<>>

\* C8 amended: when the structuring call fails the structured data is the
\* fallback: the title is the first five pieces of split(/\s+/) joined by
\* single spaces and followed by '...' (the first five words when the
\* selection neither starts nor ends with white space), the connections are
\* empty;
\* every page write carries them; a capture that ends Done sent exactly one
\* page write, a capture whose storage call fails ends Failed.
C8_FallbackAmended ==
    \A c \in Caps :
        LET r == cap[c]
            pieces == SplitWs(r.text)
            title == JoinSp(Slice0(pieces, TitleWords)) \o Ellipsis
        IN r.groqCalls = <<"failed">> =>
            /\ r.structuredData = [sectionTitle |-> title, connections |-> <<>>]
            /\ Len(title) <= Len(r.text) + Len(Ellipsis)
            /\ (~IsSpace(r.text[1]) /\ ~IsSpace(r.text[Len(r.text)]))
                  => title = FiveWordsTitle(r.text)
            /\ \A k \in 1..Len(PageWrites(r)) :
                  /\ PageWrites(r)[k].title = title
                  /\ PageWrites(r)[k].connections = <<>>
            /\ r.pc = "done" =>
                  /\ Len(PageWrites(r)) = 1
                  /\ NotionOk(PageWrites(r)[1].outcome)
            /\ (r.notionCalls # <<>> /\ ~NotionOk(r.notionCalls[Len(r.notionCalls)].outcome))
                  => r.pc = "failed"

\* a capture of a selection of more than five words whose structuring call
\* failed has ended Done after one page write with the five-word title
C8_Witness ==
    /\ cap["c1"].pc = "done"
    /\ cap["c1"].groqCalls = <<"failed">>
    /\ cap["c1"].text = TextLong
    /\ Len(PageWrites(cap["c1"])) = 1
    /\ PageWrites(cap["c1"])[1].title = <<"a", " ", "b", " ", "c", " ", "d", " ", "e", ".", ".", ".">>

\* C9: when a storage call of a capture fails (schema fetch, create or
\* append), the capture is Failed with the error as its notification, and the
\* session list (page ids, contents, counts) and totalNotes are as they were
\* when the capture started.
C9_StorageFailure ==
    \A c \in Caps :
        LET r == cap[c]
            n == Len(r.notionCalls)
        IN (n > 0 /\ r.notionCalls[n].outcome # "ok") =>
            /\ r.pc = "failed"
            /\ r.notif.type = "error"
            /\ r.notif.message = (IF r.notionCalls[n].outcome = "http_error"
                                  THEN "Error: Notion API error"
                                  ELSE "Error: Failed to fetch")
            /\ r.writes = {}
            /\ sessions = r.snap.sessions
            /\ totalNotes = r.snap.totalNotes

\* the append of a second capture on a session has failed: the session still
\* has its page and its one content entry
C9_Witness ==
    LET r == cap["c1"]
        i == FindIndex(sessions, r.activeSessionId)
    IN /\ r.pc = "failed"
       /\ Len(r.notionCalls) = 1
       /\ r.notionCalls[1].op = "append"
       /\ r.notionCalls[1].outcome = "http_error"
       /\ i # 0
       /\ sessions[i].contentCount = 1
       /\ totalNotes = 1

\* C10: a capture that has reached Done has appended exactly one entry, the
\* section title and the first 300 characters of the selection, to the session
\* it captured into and raised that session's contentCount by one.
C10_DoneRecordsEntry ==
    \A c \in Caps :
        LET r == cap[c]
            i == FindIndex(sessions, r.activeSessionId)
            j == FindIndex(r.snap.sessions, r.activeSessionId)
        IN r.pc = "done" =>
            /\ i # 0 /\ j # 0
            /\ sessions[i].contentCount = OrZero(r.snap.sessions[j].contentCount) + 1
            /\ Len(sessions[i].contents) = Min(Len(r.snap.sessions[j].contents) + 1, MaxContents)
            /\ LET last == sessions[i].contents[Len(sessions[i].contents)] IN
                  /\ last.title = r.structuredData.sectionTitle
                  /\ last.summary = Substring0(r.text, SummaryLimit)

\* C11: getEncrypted returns null exactly when nothing is stored under the
\* name; when an entry is stored and its decryption fails, the call fails with
\* an error instead of returning null.
C11_DecryptErrorPropagates ==
    (ui.pc = "done" /\ ui.op = "getEncrypted") =>
        LET blob == ui.before.encrypted[ui.name] IN
        /\ (~ui.threw /\ ui.result = Null) <=> (blob = NoBlob)
        /\ (blob # NoBlob /\ ~DecryptOk(encryptionKey[ui.ctx], blob)) => ui.threw

\* C12: for every JSON value v (null, booleans, numbers, strings, arrays and
\* plain objects of these), when the master key is the same at both calls,
\* decrypt(encrypt(v)) does not throw and returns a value equal to v.
C12_RoundTrip ==
    (ui.pc = "done" /\ ui.op = "decrypt" /\ masterKey = ui.before.masterKey) =>
        ~ui.threw /\ ui.result = ui.arg

\* an object of two members encrypted in one context and decrypted in the
\* other, which had to import the key
C12_Witness ==
    /\ ui.pc = "done" /\ ui.op = "decrypt"
    /\ ui.arg.t = "obj" /\ Len(ui.arg.items) = 2 /\ ui.arg.items[2].val.t = "num"
    /\ ui.ctx = "bg" /\ ui.before.encryptionKey["bg"] = Null
    /\ ui.blob.data.key = masterKey
    /\ ui.result = ui.arg

\* the call that has returned is the first getOrCreateMasterKey of its context
\* after a clearKey() that dropped a key, and the exported key that was
\* persisted at the clearKey() was still persisted when the call started
ReloadAfterClearKey ==
    /\ ui.pc = "done" /\ ui.op = "getOrCreateMasterKey"
    /\ ui.before.encryptionKey[ui.ctx] = Null
    /\ ui.dropped[ui.ctx].key # Null
    /\ ui.before.masterKey # Null
    /\ ui.before.masterKey = ui.dropped[ui.ctx].persisted

\* C13: the first getOrCreateMasterKey after clearKey(), when an exported key
\* is persisted, returns the persisted key, which is the key the context held
\* before clearKey; no key is generated and the persisted key is not
\* rewritten, so a blob the context encrypted before clearKey still decrypts.
C13_ReloadSameKey ==
    ReloadAfterClearKey =>
        /\ ui.result = ui.before.masterKey
        /\ ui.result = ui.dropped[ui.ctx].key
        /\ nextKey = ui.before.nextKey
        /\ masterKey = ui.before.masterKey
        /\ DecryptOk(ui.result, Encrypt(ui.dropped[ui.ctx].key, GroqVal))

\* C14: clearAll() removes the persisted master key and every stored blob;
\* the next use of the Encryption Engine, in whichever context, generates a
\* fresh key different from the removed one and persists it, and the key that
\* context then works with decrypts no blob encrypted before clearAll().
C14_ClearAllRotatesKey ==
    /\ (ui.pc = "done" /\ ui.op = "clearAll") =>
            masterKey = Null /\ \A n \in SecretNames : encrypted[n] = NoBlob
    /\ ( /\ ui.pc = "done" /\ ui.op \in {"getOrCreateMasterKey", "setEncrypted"}
         /\ ui.wiped # Null /\ ui.before.masterKey = Null ) =>
            /\ nextKey = ui.before.nextKey + 1
            /\ encryptionKey[ui.ctx] = ui.before.nextKey
            /\ masterKey = encryptionKey[ui.ctx]
            /\ masterKey # ui.wiped
            /\ ~DecryptOk(encryptionKey[ui.ctx], Encrypt(ui.wiped, GroqVal))

\* C15: whenever no key creation is in flight, every key cached in the popup
\* or in the background worker is the persisted exported key, so two contexts
\* that first call getOrCreateMasterKey concurrently do not end up holding
\* two different keys.
C15_OneMasterKey ==
    (\A x \in Ctxs : \A p \in 1..Len(proms[x]) : proms[x][p].pc = "resolved") =>
        \A x \in Ctxs :
            encryptionKey[x] # Null =>
                /\ encryptionKey[x] = masterKey
                /\ \A y \in Ctxs : encryptionKey[y] \in {Null, encryptionKey[x]}

\* C16: with clearKey() falling at any await point of the getOrCreateMasterKey
\* calls of a context, no call and no key-creation promise resolves to null,
\* and the context generates at most one key, which is the persisted one.
C16_ClearKeyInFlight ==
    LET x == "popup" IN
    /\ \A i \in 1..Len(callers[x]) :
          callers[x][i].pc = "done" => callers[x][i].result # Null
    /\ \A p \in 1..Len(proms[x]) :
          proms[x][p].pc = "resolved" => proms[x][p].value # Null
    /\ nextKey <= 2
    /\ masterKey \in {Null, 1}

\* C17: deleteSession(id) removes the sessions of that id and nothing else:
\* the other sessions are stored unchanged and in their order.  If id was the
\* active session, the pointer becomes the id of the new first session, or
\* null when the list is empty; otherwise the pointer keeps its value.
C17_DeleteSessionFrame ==
    (ui.pc = "done" /\ ui.op = "deleteSession") =>
        LET old == ui.before.sessions
            keep == {i \in 1..Len(old) : old[i].id # ui.id}
            nth(k) == CHOOSE i \in keep : Cardinality({j \in keep : j < i}) = k - 1
        IN /\ Len(sessions) = Cardinality(keep)
           /\ \A k \in 1..Len(sessions) : sessions[k] = old[nth(k)]
           /\ IF ui.before.activeSessionId = ui.id
              THEN activeSessionId = (IF Len(sessions) = 0 THEN Null ELSE sessions[1].id)
              ELSE activeSessionId = ui.before.activeSessionId

\* the active session, in the middle of three, has been deleted
C17_Witness ==
    /\ ui.pc = "done" /\ ui.op = "deleteSession"
    /\ Len(ui.before.sessions) = 3
    /\ ui.before.sessions[2].id = ui.id
    /\ ui.before.activeSessionId = ui.id
    /\ Len(sessions) = 2
    /\ activeSessionId = sessions[1].id

\* C18: createSession(name) puts a new session with that name, a fresh id,
\* empty contents, contentCount 0 and notionPageId null at the front of the
\* list, leaves the sessions that existed unchanged behind it, makes the new
\* session the active one and returns it.
C18_CreateSession ==
    (ui.pc = "done" /\ ui.op = "createSession") =>
        /\ sessions = <<ui.result>> \o ui.before.sessions
        /\ ui.result.name = ui.name
        /\ ui.result.id \notin IdsOf(ui.before.sessions)
        /\ ui.result.hasContents /\ ui.result.contents = <<>>
        /\ ui.result.contentCount = 0
        /\ ui.result.notionPageId = Null
        /\ activeSessionId = ui.result.id

\* a session has been created in front of two others while another session
\* was active
C18_Witness ==
    /\ ui.pc = "done" /\ ui.op = "createSession"
    /\ Len(ui.before.sessions) = 2
    /\ ui.before.activeSessionId \in IdsOf(ui.before.sessions)
    /\ Len(sessions) = 3
    /\ activeSessionId = sessions[1].id

\* C19: setActiveSession(id) with an id that names no stored session leaves
\* activeSessionId at its previous value.
C19_UnknownIdRejected ==
    ( /\ ui.pc = "done" /\ ui.op = "setActiveSession"
      /\ ui.id \notin IdsOf(ui.before.sessions) ) =>
        activeSessionId = ui.before.activeSessionId

C21_FreshIv ==
    \A i, j \in 1..Len(ui.made) :
        (i < j /\ ui.made[i].data.key = ui.made[j].data.key) =>
            /\ Base64Decode(ui.made[i].iv) # Base64Decode(ui.made[j].iv)
            /\ ui.made[i].data.iv # ui.made[j].data.iv
            /\ ui.made[i].iv # ui.made[j].iv
            /\ ui.made[i].data # ui.made[j].data

\* the same value has been encrypted three times under one key
C21_Witness ==
    /\ Len(ui.made) = 3
    /\ \A i \in 1..3 : ui.made[i].data.plain = ui.made[1].data.plain
                        /\ ui.made[i].data.key = ui.made[1].data.key

\* C22: decrypt throws, and returns no plaintext, when no master key existed
\* (neither cached in the context nor persisted), when the IV is not base64,
\* when the IV or the ciphertext was altered, and when the object was made
\* under a key other than the one the context holds.
C22_DecryptFails ==
    (ui.pc = "done" /\ ui.op = "decryptBlob") =>
        LET noKey == ui.before.masterKey = Null /\ ui.before.encryptionKey[ui.ctx] = Null
            malformed == ui.name \in {"ivChar", "ivShort"}
            tampered == ui.name \in {"ivOther", "ivCut", "dataForged"}
            otherKey == ui.blob.data.key # encryptionKey[ui.ctx]
        IN (noKey \/ malformed \/ tampered \/ otherKey) =>
               (ui.threw /\ ui.result = JNull)

C22_Witness ==
    /\ ui.pc = "done" /\ ui.op = "decryptBlob"
    /\ ui.name = "intact"
    /\ ui.before.masterKey = Null /\ ui.before.encryptionKey[ui.ctx] = Null
    /\ masterKey = 2 /\ encryptionKey[ui.ctx] = 2
    /\ ui.threw

\* a step takes a capture to the next stage, to Failed from a stage in
\* progress, to Done from UpdatingSession only, or leaves its stage alone
StageStep(c) ==
    LET a == Stage(cap[c].pc)
        b == Stage(cap'[c].pc)
    IN \/ b = a
       \/ a \in 0..5 /\ b = a + 1
       \/ a \in 1..5 /\ b = 7
       \/ a \in {6, 7} /\ b = 0

CaptureEnded(c) ==
    \/ cap[c].pc = "done" /\ cap[c].notif = Notification(MsgSuccess, "success")
    \/ cap[c].pc = "failed" /\ cap[c].notif.type = "error" /\ cap[c].notif.message # ""

EntryOf(r) ==
    LET made == r.list[FindIndex(r.list, r.activeSessionId)].contents
    IN made[Len(made)]

\* C24: two addContentToSession calls on the same session that both read the
\* list before either wrote it both return the session (success), and then
\* the stored contentCount has grown by one only and exactly one of the two
\* entries is in the stored contents.
C24_LostUpdate ==
    LET a == cap["c1"]
        b == cap["c2"]
    IN (/\ a.pc = "done" /\ b.pc = "done"
        /\ a.activeSessionId = b.activeSessionId
        /\ a.snap.sessions = b.snap.sessions) =>
           LET i == FindIndex(sessions, a.activeSessionId)
               before == a.snap.sessions[i]
               stored == sessions[i]
               kept == {r \in {a, b} : \E k \in 1..Len(stored.contents) :
                                          stored.contents[k] = EntryOf(r)}
           IN /\ a.notif.type = "success" /\ b.notif.type = "success"
              /\ EntryOf(a) # EntryOf(b)
              /\ stored.contentCount = OrZero(before.contentCount) + 1
              /\ Len(stored.contents) = Len(before.contents) + 1
              /\ Cardinality(kept) = 1

C24_Witness ==
    /\ cap["c1"].pc = "done" /\ cap["c2"].pc = "done"
    /\ cap["c1"].snap.sessions = cap["c2"].snap.sessions
    /\ cap["c1"].notif.type = "success" /\ cap["c2"].notif.type = "success"
    /\ sessions[1].contentCount = 1
    /\ Len(sessions[1].contents) = 1
    /\ nAdds[1] = 2

\* C25: when getOrCreateMasterKey fails (the stored key cannot be imported)
\* while a stored secret is read or written, getEncrypted and setEncrypted
\* throw, and a capture does not end with the message for a missing secret.
C25_KeyFailureSurfaces ==
    /\ (/\ ui.pc = "done" /\ ui.op \in {"getEncrypted", "setEncrypted"}
        /\ ImportFails(ui.before, ui.ctx)
        /\ ui.op = "getEncrypted" => ui.before.encrypted[ui.name] # NoBlob) => ui.threw
    /\ \A c \in Caps :
          (/\ cap[c].pc = "failed"
           /\ ImportFails(KeyState, "bg")
           /\ encrypted["groqApiKey"] # NoBlob) =>
               cap[c].notif.message \notin {MsgNoGroq, MsgNoNotion}

\* what getEncrypted(name) would return in context x in key state st with the
\* stored secrets enc: the value, or Null
Readable(st, enc, x, name) ==
    GetEncryptedResult(ResolveKey(st, x).encryptionKey[x], enc[name]).value

C27_UnlockOnly ==
    /\ [][(isLocked /\ ~isLocked') =>
            \E pw \in Passwords :
                /\ Unlock(pw)
                /\ Readable(KeyState, encrypted, "popup", "userData") # Null
                /\ VerifyPassword(pw, Readable(KeyState, encrypted, "popup", "userData"))]_vars
    /\ [][\A pw \in Passwords :
            (/\ Unlock(pw)
             /\ isLocked
             /\ \/ Readable(KeyState, encrypted, "popup", "userData") = Null
                \/ ~VerifyPassword(pw, Readable(KeyState, encrypted, "popup", "userData")))
            => isLocked']_vars

C27_Witness ==
    /\ ui.pc = "done" /\ ui.op = "unlock" /\ ui.ok
    /\ ~isLocked
    /\ ui.id # SetupPassword

\* the addContentToSession calls that found their session and returned it
RECURSIVE ReturnedUpTo(_)
ReturnedUpTo(n) == IF n = 0 THEN 0 ELSE nAdds[n] + ReturnedUpTo(n - 1)

ReturnedCalls == ReturnedUpTo(Cardinality(SessionIds))

\* C28: between calls totalNotes (0 when absent) is the number of
\* addContentToSession calls that returned a session; such a call adds one, a
\* call with an id not in the list writes nothing and leaves the list and
\* totalNotes as they were, and no step of deleteSession changes totalNotes.
C28_TotalNotes ==
    /\ [](Quiet => OrZero(totalNotes) = ReturnedCalls)
    /\ [](cap["c1"].pc = "done" =>
            IF cap["c1"].activeSessionId \in IdsOf(cap["c1"].snap.sessions)
            THEN totalNotes = OrZero(cap["c1"].snap.totalNotes) + 1
            ELSE /\ sessions = cap["c1"].snap.sessions
                 /\ totalNotes = cap["c1"].snap.totalNotes
                 /\ cap["c1"].writes = {})
    /\ [][(ui.op = "deleteSession" \/ ui'.op = "deleteSession") =>
            totalNotes' = totalNotes]_vars

C28_Witness ==
    /\ Quiet
    /\ totalNotes = 3
    /\ ReturnedCalls = 3
    /\ Len(sessions) = 1
    /\ sessions[1].contentCount = 1

\* C29: between calls, after n addContentToSession calls on a session its
\* contents are the entries of the last min(n, 30) of those calls, oldest
\* first: entry k is the one call number n - min(n, 30) + k pushed.
C29_RollingContext ==
    cap["c1"].pc = "idle" =>
        \A i \in 1..Len(sessions) :
            LET n == nAdds[sessions[i].id]
                kept == Min(n, MaxContents)
            IN /\ Len(sessions[i].contents) = kept
               /\ \A k \in 1..kept :
                     sessions[i].contents[k] =
                         ContentEntry(AiTitle, TextLong, n - kept + k)

C29_Witness ==
    /\ cap["c1"].pc = "idle"
    /\ nAdds[1] = MaxContents + 2
    /\ Len(sessions[1].contents) = MaxContents
    /\ sessions[1].contents[1].timestamp = 3
    /\ sessions[1].contents[MaxContents].timestamp = MaxContents + 2

\* the output of the structuring service is malformed: the body does not
\* parse, there are no choices, the content is not JSON or is null, or it is a
\* JSON object without a usable section title or with connections that is
\* not a list
MalformedOutput(resp) ==
    \/ resp.kind \in {"bad_body", "no_choices", "not_json", "json_null"}
    \/ resp.kind = "json" /\ (resp.title = <<>> \/ resp.connKind = "text")

\* C30: whenever the output of the structuring service is malformed, the
\* structuring step returns the fallback: the title is the first five words
\* of the selection followed by '...', the connections are empty.
C30_MalformedFallsBack ==
    \A c \in Caps :
        (cap[c].pc = "done" /\ MalformedOutput(cap[c].groqCalls[1])) =>
            /\ cap[c].structuredData.sectionTitle = FiveWordsTitle(cap[c].text)
            /\ Len(cap[c].structuredData.connections) = 0

\* C31: a secret written by setEncrypted and not removed by clearAll since
\* (its blob is still stored) is returned unchanged by a getEncrypted call of
\* a context that holds no key in memory (after clearKey, or a context that
\* starts anew), whatever state the write was made from.
C31_SecretDurable ==
    ( /\ ui.pc = "done" /\ ui.op = "getEncrypted"
      /\ ui.before.encrypted[ui.name] # NoBlob
      /\ ui.before.encryptionKey[ui.ctx] = Null ) =>
        ui.result = ui.before.encrypted[ui.name].val

\* C32: within one capture the remote page written and the local session
\* updated belong to the same session: every append the capture has made went
\* to the page of the session the capture records its page id and its content
\* entry on (the active session it read when it started), also when the
\* active session is switched while the capture is suspended.
C32_SamePageAndSession ==
    \A c \in Caps : \A k \in 1..Len(cap[c].notionCalls) :
        LET call == cap[c].notionCalls[k] IN
        (call.op = "append" /\ NotionOk(call.outcome)) =>
            pages[call.page].sid = cap[c].activeSessionId

\* C33: a capture that has emitted the success notification has recorded
\* itself: the session it captured into is in the stored list and its
\* contentCount is one more than when the capture started, also when the
\* session is deleted while the capture is suspended.
C33_SuccessIsRecorded ==
    \A c \in Caps :
        LET r == cap[c]
            i == FindIndex(sessions, r.activeSessionId)
            j == FindIndex(r.snap.sessions, r.activeSessionId)
            before == IF j = 0 THEN 0 ELSE OrZero(r.snap.sessions[j].contentCount)
        IN (r.pc = "done" /\ r.notif = Notification(MsgSuccess, "success")) =>
              /\ i # 0
              /\ sessions[i].contentCount = before + 1

\* C34: a session added to the stored list by createSession or createNewSession
\* stays in it until deleteSession is called with its id: every step that
\* takes a session out of the stored list is the list write of a
\* deleteSession call with that id, and when a creation sets the active
\* pointer the session it names is in the list, whatever a capture in the
\* background worker writes in between.
C34_CreatedSessionStays ==
    [][ /\ \A id \in IdsOf(sessions) \ IdsOf(sessions') :
              ui.pc = "dsWrite" /\ ui.id = id
        /\ (ui.pc \in {"csSetActive", "nsSetActive"} /\ ui'.pc # ui.pc) =>
              activeSessionId' \in IdsOf(sessions') ]_vars

\* C35: a session's notionPageId, once set to a page id, never changes to a
\* different value for as long as the session is in the stored list: no step
\* of a capture or of a Session Store operation takes a stored page id to
\* another value.
C35_PageIdStable ==
    [][ \A i \in 1..Len(sessions) : \A k \in 1..Len(sessions') :
           (sessions'[k].id = sessions[i].id /\ StoredHasPage(sessions[i])) =>
               sessions'[k].notionPageId = sessions[i].notionPageId ]_vars

\* C36: in every reachable state, every session of the stored list has as
\* many contents as the smaller of its contentCount and 30, a missing
\* contents counting as empty and a missing contentCount as 0; also while
\* addContentToSession calls and popup operations interleave.
C36_ContentsMatchCount ==
    \A i \in 1..Len(sessions) :
        Len(sessions[i].contents) = Min(OrZero(sessions[i].contentCount), MaxContents)

\* two calls on a session that held 30 entries, both reading the list before
\* either wrote it, have returned: 32 calls were made, the count is 31 and 30
\* entries are kept
C36_Witness ==
    /\ cap["c1"].pc = "done" /\ cap["c2"].pc = "done"
    /\ cap["c1"].snap.sessions = cap["c2"].snap.sessions
    /\ \E i \in 1..Len(sessions) :
          /\ sessions[i].id = 1
          /\ nAdds[1] = MaxContents + 2
          /\ Len(sessions[i].contents) = MaxContents
          /\ sessions[i].contentCount = MaxContents + 1

\* C37: a failed key load is recoverable: a getOrCreateMasterKey call made
\* when the key creation in flight has been rejected (import, generate or
\* export failed) does not wait on that rejected promise; it gets the cached
\* key or starts a new creation.
C37_RejectedLoadRetried ==
    [][ \A x \in Ctxs :
          ( /\ Len(callers'[x]) = Len(callers[x]) + 1
            /\ keyPromise[x] # Null
            /\ proms[x][keyPromise[x]].pc = "rejected" ) =>
              callers'[x][Len(callers'[x])].prom # keyPromise[x] ]_vars

\* C38: read paths do not write persisted state: getEncrypted for a name with
\* nothing stored returns null and leaves the persisted master key and the
\* key counter as they were, and getEncrypted on a stored blob never creates
\* or overwrites the persisted master key.
C38_ReadsDoNotPersist ==
    (ui.pc = "done" /\ ui.op = "getEncrypted") =>
        /\ masterKey = ui.before.masterKey
        /\ encrypted = ui.before.encrypted
        /\ ui.before.encrypted[ui.name] = NoBlob =>
              ui.result = Null /\ nextKey = ui.before.nextKey

\* C39: after lockExtension has completed, and for as long as isLocked stays
\* true, the popup holds no master key in memory (hasKey() is false).
C39_LockedPopupHasNoKey ==
    (isLocked /\ UiIdle /\ ui.view = "lock") => encryptionKey["popup"] = Null

\* C40: a capture never decrypts the Groq key or the Notion credentials and
\* never calls the structuring or the storage service while the locked flag
\* is true: every such step of a capture is taken in a state where isLocked
\* is false, also when lockExtension runs after the capture's lock check.
C40_NoWorkWhileLocked ==
    [][ \A c \in Caps :
          ( /\ cap[c].pc \in {"getGroqKey", "getNotionCreds", "callGroq",
                               "append", "schema", "create"}
            /\ cap'[c] # cap[c] ) => ~isLocked ]_vars

====
